---- MODULE Spec2Model ----
(***************************************************************************)
(* A model of the calculation logic of the TaxWise front end.              *)
(*                                                                         *)
(*   - the credit score model of pages/CIBILAdvisor.jsx: the pure          *)
(*     functions getScoreFactors and getRecommendations, the score         *)
(*     computed by calculateScore, and the component's form state with     *)
(*     its handlers (accounts and inquiries are lists of REFERENCES to     *)
(*     objects; the handlers copy the list, never the objects);            *)
(*   - the tax regime comparator and the debt repayment simulator, which   *)
(*     run in the Python back end: the front end only posts to them and    *)
(*     renders their answer, so they are modelled from the specification.  *)
(*                                                                         *)
(* Strings stay strings: a form field holds the text of its input          *)
(* element, '' when empty, and the code's truthiness tests and Number()    *)
(* and Date parsing are applied to that text.  Time is counted in days     *)
(* since 1970-01-01 (UTC); arithmetic on ratios is exact (cross            *)
(* multiplied), which agrees with IEEE doubles on the small values used.   *)
(***************************************************************************)
EXTENDS Integers, Sequences, FiniteSets, TLC

VARIABLES
    \* ---- CIBILAdvisor component ----
    heap,          \* object store: reference -> object (module-level templates)
    accounts,      \* useState: sequence of references to account objects
    inquiries,     \* useState: sequence of references to inquiry objects
    score,         \* useState: NoScore (null) or an integer
    scoreHistory,  \* useState: sequence of [month, score]
    showDetails,   \* useState: BOOLEAN
    error,         \* useState: text
    success,       \* useState: text
    handlerCalls,  \* number of handler calls of the session so far
    calls,         \* record of the scoring runs so far: inputs and outputs
    now,           \* the clock read by new Date() / Date.now(), in days
    \* ---- harness of the pure scoring functions ----
    argAccounts,   \* sequence of account objects (values)
    argInquiries,  \* sequence of inquiry objects (values)
    result,        \* NoResult or [score, factors, recommendations]
    \* ---- tax regime comparator (back end) ----
    taxProfile,    \* the TaxProfile of the request
    taxOutcome,    \* NoOutcome, an InvalidInputError or a TaxComparison
    \* ---- debt repayment simulator (back end) ----
    simInput,      \* [debts, strategy, budget] of the request
    simPhase,      \* "idle", "running" or "done"
    simBalances,   \* outstanding balance of each debt
    simTimeline,   \* the TimelineEntry of every simulated month so far
    simWarnings,   \* the warnings the result carries
    simInterest,   \* the interest paid over the months simulated so far
    simLog,        \* the results returned so far
    \* ---- capital gains analyzer (back end) ----
    cgTrades,      \* the trades of the batch
    cgResult,      \* NoOutcome or the Classification: [records, errors]
    \* ---- DebtDashboard page ----
    listedDebts,   \* useState debts: the debts listed
    form,          \* useState: [name, amount, rate, minPayment] texts
    chosenStrategy,  \* useState strategy: "snowball" or "avalanche"
    simulation,    \* useState: NoSimulation (null) or the response data
    loading,       \* useState: BOOLEAN
    uploadError,   \* useState: text
    uploadSuccess, \* useState: text
    storedDebts,   \* the debts the back end keeps for the user
    debtRequests,  \* the requests of the page that have not settled yet
    \* ---- CapitalGainsAnalyzer page ----
    gains,         \* useState: the gains listed
    analysis,      \* useState: NoAnalysis (null) or the response data
    analyzerLoading,   \* useState loading of the analyzer: BOOLEAN
    analyzerUpload,    \* useState uploadError / uploadSuccess of the analyzer
    analyzerRequests,  \* the requests of the analyzer that have not settled yet
    pageCalls,     \* number of submits, clicks and uploads on the pages so far
    \* ---- Dashboard (fetchDashboardData) ----
    user,          \* the user prop
    dashboardData, \* useState: NoData (null) or the response data
    dashboardLoading,  \* useState loading: BOOLEAN
    dashboardError,    \* useState error: text
    dashboardPhase,    \* where fetchDashboardData stands
    \* ---- Dashboard (fetchAllData) ----
    overviewData,      \* useState dashboardData: NoData (null) or the demo data
    overviewLoading,   \* useState loading: BOOLEAN
    overviewError,     \* useState error: text
    overviewFetched,   \* which of taxData, recommendations, cibil data were set
    overviewPhase,     \* where fetchAllData stands
    \* ---- Chatbot ----
    messages,      \* useState: sequence of [sender, text]
    chatInput,     \* useState input: text
    showFaqs,      \* useState: BOOLEAN
    chatLoading,   \* useState loading: BOOLEAN
    chatRequests   \* the questions sent whose request has not settled yet

cibilVars == <<heap, accounts, inquiries, score, scoreHistory, showDetails,
               error, success, handlerCalls, calls>>
harnessVars == <<argAccounts, argInquiries, result>>
taxVars == <<taxProfile, taxOutcome>>
cgVars == <<cgTrades, cgResult>>
debtPageVars == <<listedDebts, form, chosenStrategy, simulation, loading, uploadError,
                  uploadSuccess, storedDebts, debtRequests>>
analyzerVars == <<gains, analysis, analyzerLoading, analyzerUpload, analyzerRequests>>
pageVars == <<debtPageVars, analyzerVars, pageCalls>>
dashboardVars == <<user, dashboardData, dashboardLoading, dashboardError, dashboardPhase>>
overviewVars == <<overviewData, overviewLoading, overviewError, overviewFetched, overviewPhase>>
chatVars == <<messages, chatInput, showFaqs, chatLoading, chatRequests>>
shellVars == <<dashboardVars, overviewVars, chatVars>>
simVars == <<simInput, simPhase, simBalances, simTimeline, simWarnings, simInterest, simLog>>
vars == <<heap, accounts, inquiries, score, scoreHistory, showDetails,
          error, success, handlerCalls, calls, now,
          argAccounts, argInquiries, result, taxProfile, taxOutcome,
          simInput, simPhase, simBalances, simTimeline, simWarnings, simInterest, simLog,
          cgTrades, cgResult,
          listedDebts, form, chosenStrategy, simulation, loading, uploadError,
          uploadSuccess, storedDebts, debtRequests,
          gains, analysis, analyzerLoading, analyzerUpload, analyzerRequests,
          pageCalls,
          user, dashboardData, dashboardLoading, dashboardError, dashboardPhase,
          overviewData, overviewLoading, overviewError, overviewFetched, overviewPhase,
          messages, chatInput, showFaqs, chatLoading, chatRequests>>

(***************************************************************************)
(* Bounds of the model.                                                    *)
(***************************************************************************)
MaxArgAccounts == 2     \* accounts per scoring call in the harness
MaxArgInquiries == 3    \* inquiries per scoring call in the harness
ManyLate == 20          \* rows of the longest payment history tried
MaxHandlerCalls == 5    \* handler calls per session of the CIBIL form
MaxAccounts == 3        \* accounts in the CIBIL form
MaxInquiries == 3       \* inquiries in the CIBIL form
MaxPaymentRows == 2     \* payment rows per account in the CIBIL form
IncomeSteps == 8        \* gross incomes tried: 0, 250,000, ... in that many steps
ClaimSteps == 5         \* deduction claims tried: 0, 50,000, ... in that many steps
MaxDebts == 2           \* debts per simulation request
MaxTrades == 4           \* trades per batch of the capital gains analyzer
MaxRequests == 2         \* simulation requests per session
BudgetSteps == 3         \* budgets tried under both strategies: the minimums plus 0, 35, ... in that many steps
ExtraSteps == 1         \* budgets tried beyond the minimums: 0, 1,000, ... in that many steps
MaxPageCalls == 3       \* submits, clicks and uploads on the DebtDashboard and analyzer pages
MaxMessages == 5        \* chat messages shown or still to come, the welcome included

(***************************************************************************)
(* Helpers.                                                                *)
(***************************************************************************)
Min(a, b) == IF a < b THEN a ELSE b
Max(a, b) == IF a > b THEN a ELSE b

RECURSIVE SumSeq(_)
SumSeq(s) == IF s = <<>> THEN 0 ELSE Head(s) + SumSeq(Tail(s))

Range(s) == { s[i] : i \in DOMAIN s }

\* JS truthiness of a string: every non-empty string is truthy, "0" included.
Truthy(str) == str /= ""

\* Number(str) for the texts a type="number" input can hold.
Number(str) ==
    CASE str = "" -> 0
      [] str = "0" -> 0
      [] str = "20" -> 20
      [] str = "30" -> 30
      [] str = "40" -> 40
      [] str = "50" -> 50
      [] str = "60" -> 60
      [] str = "100" -> 100

\* new Date(str): the day number of a YYYY-MM-DD text (UTC midnight), or an
\* Invalid Date (valid = FALSE; every comparison and subtraction then yields
\* false / NaN) for anything else.
DateParse(str) ==
    CASE str = "2015-01-01" -> [valid |-> TRUE, t |-> 16436]
      [] str = "2022-01-01" -> [valid |-> TRUE, t |-> 18993]
      [] str = "2023-06-01" -> [valid |-> TRUE, t |-> 19509]
      [] str = "2024-01-02" -> [valid |-> TRUE, t |-> 19724]
      [] str = "2024-07-01" -> [valid |-> TRUE, t |-> 19905]
      [] str = "2025-03-01" -> [valid |-> TRUE, t |-> 20148]
      [] OTHER -> [valid |-> FALSE, t |-> 0]

\* The instants the clock takes: 2025-01-01 and 2025-07-01 as day numbers
\* (the second is exactly 365 days after 2024-07-01; 2025-03-01 lies after
\* the first and before the second).
NowSet == {20089, 20270}
FirstNow == CHOOSE t \in NowSet : \A u \in NowSet : t <= u

\* 1000*60*60*24*365.25 ms is 365.25 days; ages are kept in quarter days so
\* that one year is the integer 1461.
YearQuarterDays == 1461
InquiryWindowDays == 365

(***************************************************************************)
(* Module-level data of CIBILAdvisor.jsx.                                  *)
(***************************************************************************)
PaymentRow(date, onTime) == [date |-> date, onTime |-> onTime]
Account(type, opened, limit, balance, paymentHistory) ==
    [type |-> type, opened |-> opened, limit |-> limit, balance |-> balance,
     paymentHistory |-> paymentHistory]
Inquiry(date, type) == [date |-> date, type |-> type]

initialAccount == Account("", "", "", "", <<PaymentRow("", TRUE)>>)
initialInquiry == Inquiry("", "")

demoScoreHistory ==
    << [month |-> "Jan", score |-> 730], [month |-> "Feb", score |-> 735],
       [month |-> "Mar", score |-> 740], [month |-> "Apr", score |-> 745],
       [month |-> "May", score |-> 750], [month |-> "Jun", score |-> 755] >>

(***************************************************************************)
(* The accumulation loop shared, statement for statement, by               *)
(* getScoreFactors (lines 49-73) and calculateScore (lines 198-222).       *)
(***************************************************************************)
\* acc.paymentHistory.forEach(ph => { if (ph.date && !ph.onTime) latePayments++ })
LateRows(acc) ==
    Cardinality({ i \in DOMAIN acc.paymentHistory :
                    Truthy(acc.paymentHistory[i].date)
                    /\ ~acc.paymentHistory[i].onTime })

latePayments(accs) == SumSeq([i \in DOMAIN accs |-> LateRows(accs[i])])

\* if (acc.limit && acc.balance) { utilizationSum += ...; limitSum += ... }
CountsForUtilization(acc) == Truthy(acc.limit) /\ Truthy(acc.balance)

utilizationSum(accs) ==
    SumSeq([i \in DOMAIN accs |->
              IF CountsForUtilization(accs[i]) THEN Number(accs[i].balance) ELSE 0])

limitSum(accs) ==
    SumSeq([i \in DOMAIN accs |->
              IF CountsForUtilization(accs[i]) THEN Number(accs[i].limit) ELSE 0])

\* if (acc.opened) accountAges.push((new Date() - new Date(acc.opened)) / year)
\* An entry is [nan, q]: q is the age in quarter days, nan marks NaN.
accountAges(accs, t) ==
    LET opened == SelectSeq(accs, LAMBDA a : Truthy(a.opened))
    IN [i \in DOMAIN opened |->
          LET d == DateParse(opened[i].opened)
          IN IF d.valid THEN [nan |-> FALSE, q |-> 4 * (t - d.t)]
                        ELSE [nan |-> TRUE, q |-> 0]]

\* mix.add(acc.type): the set of type texts, '' included.
mix(accs) == { accs[i].type : i \in DOMAIN accs }

\* if (inq.date && new Date(inq.date) > new Date(Date.now() - 365 days))
IsRecent(inq, t) ==
    /\ Truthy(inq.date)
    /\ DateParse(inq.date).valid
    /\ DateParse(inq.date).t > t - InquiryWindowDays

recentInquiries(inqs, t) ==
    Cardinality({ i \in DOMAIN inqs : IsRecent(inqs[i], t) })

\* accountAges.reduce((a, b) => a + b, 0) / accountAges.length compared with a
\* number of years: NaN compares false with everything.
AgesNaN(ages) == \E i \in DOMAIN ages : ages[i].nan
AgesSum(ages) == SumSeq([i \in DOMAIN ages |-> ages[i].q])
AvgAgeLess(ages, years) ==
    ~AgesNaN(ages) /\ AgesSum(ages) < years * YearQuarterDays * Len(ages)
AvgAgeMore(ages, years) ==
    ~AgesNaN(ages) /\ AgesSum(ages) > years * YearQuarterDays * Len(ages)

(***************************************************************************)
(* getScoreFactors: the five qualitative statuses.  The display texts      *)
(* (Current, AverageAge, Accounts, Recent) are formatted from the same     *)
(* numbers and read by nothing but the renderer; Recent is kept as the     *)
(* count it prints.                                                        *)
(***************************************************************************)
UtilizationStatus(accs) ==
    \* utilization = limitSum > 0 ? utilizationSum / limitSum : 0
    LET u == utilizationSum(accs)
        l == limitSum(accs)
    IN IF l > 0
       THEN IF 10 * u < 3 * l THEN "Low"
            ELSE IF 2 * u < l THEN "Moderate" ELSE "High"
       ELSE "Low"

CreditAgeStatus(accs, t) ==
    \* avgAge = accountAges.length > 0 ? sum / length : 0
    LET ages == accountAges(accs, t)
    IN IF Len(ages) > 0
       THEN IF AvgAgeMore(ages, 4) THEN "Healthy"
            ELSE IF AvgAgeMore(ages, 2) THEN "Moderate" ELSE "Young"
       ELSE "Young"

getScoreFactors(accs, inqs, t) ==
    [ PaymentHistory |->
        [Status |-> IF latePayments(accs) = 0 THEN "Good" ELSE "Late Payments",
         Recent |-> latePayments(accs)],
      CreditUtilization |-> [Status |-> UtilizationStatus(accs)],
      CreditAge |-> [Status |-> CreditAgeStatus(accs, t)],
      AccountMix |->
        [Status |-> IF Cardinality(mix(accs)) > 1 THEN "Diverse" ELSE "Limited"],
      Inquiries |->
        [Status |-> IF recentInquiries(inqs, t) <= 2 THEN "Low" ELSE "High",
         Recent |-> recentInquiries(inqs, t)] ]

(***************************************************************************)
(* getRecommendations: the rule chain, in source order.                    *)
(***************************************************************************)
Rec(title, gain) == [Title |-> title, ExpectedScoreImprovement |-> gain]

RecIf(cond, title, gain) == IF cond THEN <<Rec(title, gain)>> ELSE <<>>

\* the rule chain without the 'recs.length === 0' fallback
getRecommendations_noFallback(factors) ==
       RecIf(factors.CreditUtilization.Status = "High",
             "Reduce Credit Utilization", 10)
    \o RecIf(factors.CreditAge.Status = "Young", "Increase Credit Age", 8)
    \o RecIf(factors.AccountMix.Status = "Limited", "Diversify Account Mix", 6)
    \o RecIf(factors.PaymentHistory.Status = "Late Payments",
             "Improve Payment History", 15)
    \o RecIf(factors.Inquiries.Status = "High", "Limit Credit Inquiries", 5)

\* the rule chain written with else-if: only the first rule that applies fires
getRecommendations_elseIfChain(factors) ==
    IF factors.CreditUtilization.Status = "High"
    THEN <<Rec("Reduce Credit Utilization", 10)>>
    ELSE IF factors.CreditAge.Status = "Young"
    THEN <<Rec("Increase Credit Age", 8)>>
    ELSE IF factors.AccountMix.Status = "Limited"
    THEN <<Rec("Diversify Account Mix", 6)>>
    ELSE IF factors.PaymentHistory.Status = "Late Payments"
    THEN <<Rec("Improve Payment History", 15)>>
    ELSE IF factors.Inquiries.Status = "High"
    THEN <<Rec("Limit Credit Inquiries", 5)>>
    ELSE <<Rec("Maintain Good Credit Habits", 0)>>

getRecommendations(factors) ==
    LET recs ==
            RecIf(factors.CreditUtilization.Status = "High",
                  "Reduce Credit Utilization", 10)
         \o RecIf(factors.CreditAge.Status = "Young",
                  "Increase Credit Age", 8)
         \o RecIf(factors.AccountMix.Status = "Limited",
                  "Diversify Account Mix", 6)
         \o RecIf(factors.PaymentHistory.Status = "Late Payments",
                  "Improve Payment History", 15)
         \o RecIf(factors.Inquiries.Status = "High",
                  "Limit Credit Inquiries", 5)
    IN IF Len(recs) = 0
       THEN <<Rec("Maintain Good Credit Habits", 0)>>
       ELSE recs

(***************************************************************************)
(* calculateScore: the score logic (lines 197, 224-239).                   *)
(***************************************************************************)
BaseScore == 750
LatePenalty == 25
UtilizationPenalty30 == 20
UtilizationPenalty50 == 40
YoungAgePenalty == 15
ModerateAgePenalty == 5
MixPenalty == 10
InquiryPenalty == 10
ScoreFloor == 300
ScoreCeiling == 900

\* one penalty however many late payments there are
PaymentDeduction_once(accs) ==
    IF latePayments(accs) > 0 THEN LatePenalty ELSE 0

\* if (latePayments > 0) base -= latePayments * 25
PaymentDeduction(accs) ==
    IF latePayments(accs) > 0 THEN latePayments(accs) * LatePenalty ELSE 0

\* if (limitSum > 0) { if (u > 0.3) base -= 20; else if (u > 0.5) base -= 40 }
UtilizationDeduction(accs) ==
    LET u == utilizationSum(accs)
        l == limitSum(accs)
    IN IF l > 0
       THEN IF 10 * u > 3 * l THEN UtilizationPenalty30
            ELSE IF 2 * u > l THEN UtilizationPenalty50 ELSE 0
       ELSE 0

\* one penalty for every average below four years
AgeDeduction_oneTier(accs, t) ==
    LET ages == accountAges(accs, t)
    IN IF Len(ages) > 0 /\ AvgAgeLess(ages, 4) THEN YoungAgePenalty ELSE 0

\* if (accountAges.length > 0) { if (avg < 2) base -= 15; else if (avg < 4) base -= 5 }
AgeDeduction(accs, t) ==
    LET ages == accountAges(accs, t)
    IN IF Len(ages) > 0
       THEN IF AvgAgeLess(ages, 2) THEN YoungAgePenalty
            ELSE IF AvgAgeLess(ages, 4) THEN ModerateAgePenalty ELSE 0
       ELSE 0

\* the mix penalty applied only when there is an account at all
MixDeduction_nonEmptyOnly(accs) ==
    IF accs /= <<>> /\ Cardinality(mix(accs)) < 2 THEN MixPenalty ELSE 0

\* ten points added for a diverse mix
MixDeduction_diverseBonus(accs) ==
    IF Cardinality(mix(accs)) < 2 THEN MixPenalty ELSE 0 - MixPenalty

\* if (mix.size < 2) base -= 10
MixDeduction(accs) == IF Cardinality(mix(accs)) < 2 THEN MixPenalty ELSE 0

\* if (recentInquiries > 2) base -= 10
InquiryDeduction(inqs, t) ==
    IF recentInquiries(inqs, t) > 2 THEN InquiryPenalty ELSE 0

\* base after the score logic, before the clamp
RawScore(accs, inqs, t) ==
    BaseScore - PaymentDeduction(accs) - UtilizationDeduction(accs)
              - AgeDeduction(accs, t) - MixDeduction(accs)
              - InquiryDeduction(inqs, t)

\* Math.round of a value that is an integer already
MathRound(x) == x

\* the clamp without its Math.max(300, ...)
ClampScore_noFloor(base) == Min(ScoreCeiling, MathRound(base))
\* base = Math.max(300, Math.min(900, Math.round(base)))
ClampScore(base) == Max(ScoreFloor, Min(ScoreCeiling, MathRound(base)))

ScoreOf(accs, inqs, t) == ClampScore(RawScore(accs, inqs, t))

(***************************************************************************)
(* The inputs tried on the pure scoring functions: every list of at most   *)
(* MaxArgAccounts accounts and MaxArgInquiries inquiries over these pools. *)
(***************************************************************************)
OnTimeHistory == <<PaymentRow("2024-07-01", TRUE)>>
UndatedLateHistory == <<PaymentRow("2024-07-01", TRUE), PaymentRow("", FALSE)>>
OneLateHistory == <<PaymentRow("2024-07-01", FALSE)>>
ThreeLateHistory ==
    <<PaymentRow("2023-06-01", FALSE), PaymentRow("2024-01-02", FALSE),
      PaymentRow("2024-07-01", FALSE), PaymentRow("2024-07-01", TRUE)>>
ManyLateHistory == [i \in 1..ManyLate |-> PaymentRow("2024-07-01", FALSE)]

AccountPool ==
    { initialAccount,
      Account("Credit Card", "2015-01-01", "100", "20", OnTimeHistory),
      Account("Home Loan", "2015-01-01", "100", "0", UndatedLateHistory),
      Account("Credit Card", "2024-07-01", "100", "60", ThreeLateHistory),
      Account("Home Loan", "2022-01-01", "100", "40", OnTimeHistory),
      Account("Credit Card", "not-a-date", "0", "50", OnTimeHistory),
      Account("Home Loan", "2023-06-01", "100", "30", OneLateHistory),
      Account("", "2022-01-01", "100", "50", OnTimeHistory),
      Account("Credit Card", "2015-01-01", "100", "", ManyLateHistory) }

InquiryPool ==
    { initialInquiry,
      Inquiry("2024-07-01", "Loan"),
      Inquiry("2025-03-01", "Loan"),
      Inquiry("not-a-date", "Credit Card") }

SeqsUpTo(S, n) == UNION { [1..k -> S] : k \in 0..n }

(***************************************************************************)
(* The component's state after construction (useState initial values).     *)
(***************************************************************************)
NoScore == -1       \* stands for null: no score computed yet
NoResult == [score |-> NoScore]

AccountRef == "initialAccount"
InquiryRef == "initialInquiry"

CibilInit ==
    /\ heap = [r \in {AccountRef, InquiryRef} |->
                 IF r = AccountRef THEN initialAccount ELSE initialInquiry]
    /\ accounts = <<AccountRef>>
    /\ inquiries = <<InquiryRef>>
    /\ score = NoScore
    /\ scoreHistory = demoScoreHistory
    /\ showDetails = FALSE
    /\ error = ""
    /\ success = ""
    /\ handlerCalls = 0
    /\ calls = {}

HarnessIdle ==
    /\ argAccounts = <<>>
    /\ argInquiries = <<>>
    /\ result = NoResult

\* no tax request and no simulation in the session
NoOutcome == [kind |-> "none"]
TaxIdle ==
    /\ taxProfile = [gross_income |-> 0, deduction_claims |-> <<>>]
    /\ taxOutcome = NoOutcome

SimIdle ==
    /\ simInput = [debts |-> <<>>, strategy |-> "snowball", budget |-> [given |-> FALSE, amount |-> 0]]
    /\ simPhase = "idle"
    /\ simBalances = <<>>
    /\ simTimeline = <<>>
    /\ simWarnings = {}
    /\ simInterest = 0
    /\ simLog = {}

GainsIdle ==
    /\ cgTrades = <<>>
    /\ cgResult = NoOutcome

\* the pages before they are mounted: useState initial values, nothing in flight
NoSimulation == [kind |-> "none"]
NoAnalysis == [kind |-> "none"]
BlankForm == [name |-> "", amount |-> "", rate |-> "", minPayment |-> ""]
NoUploadMessage == [error |-> "", success |-> ""]

DebtPageIdle ==
    /\ listedDebts = <<>>
    /\ form = BlankForm
    /\ chosenStrategy = "snowball"
    /\ simulation = NoSimulation
    /\ loading = FALSE
    /\ uploadError = ""
    /\ uploadSuccess = ""
    /\ storedDebts = <<>>
    /\ debtRequests = <<>>

AnalyzerIdle ==
    /\ gains = <<>>
    /\ analysis = NoAnalysis
    /\ analyzerLoading = FALSE
    /\ analyzerUpload = NoUploadMessage
    /\ analyzerRequests = <<>>

PagesIdle ==
    /\ DebtPageIdle
    /\ AnalyzerIdle
    /\ pageCalls = 0

\* the Dashboard components and the Chatbot before they are mounted
NoData == [kind |-> "none"]
NoUser == [id |-> ""]
NothingFetched == [taxData |-> FALSE, recommendations |-> FALSE,
                   cibil |-> FALSE, cibilRecs |-> FALSE]
WelcomeMessage ==
    [sender |-> "bot",
     text |-> "Welcome to TaxWise Assistant. Ask me anything about tax, CIBIL, or personal finance."]

DashboardIdle ==
    /\ user = NoUser
    /\ dashboardData = NoData
    /\ dashboardLoading = TRUE
    /\ dashboardError = ""
    /\ dashboardPhase = "idle"

OverviewIdle ==
    /\ overviewData = NoData
    /\ overviewLoading = TRUE
    /\ overviewError = ""
    /\ overviewFetched = NothingFetched
    /\ overviewPhase = "idle"

ChatIdle ==
    /\ messages = <<WelcomeMessage>>
    /\ chatInput = ""
    /\ showFaqs = TRUE
    /\ chatLoading = FALSE
    /\ chatRequests = <<>>

ShellIdle ==
    /\ DashboardIdle
    /\ OverviewIdle
    /\ ChatIdle

(***************************************************************************)
(* SpecScore: the scoring functions applied to every input of the pools.   *)
(* computeCreditScore is the contract score(accounts, inquiries) ->        *)
(* (score, factors, recommendations): calculateScore's score logic and the *)
(* render's getScoreFactors / getRecommendations on the same lists.        *)
(***************************************************************************)
ScoreInit ==
    /\ CibilInit
    /\ ShellIdle
    /\ PagesIdle
    /\ GainsIdle
    /\ TaxIdle
    /\ SimIdle
    /\ now \in NowSet
    /\ argAccounts \in SeqsUpTo(AccountPool, MaxArgAccounts)
    /\ argInquiries \in SeqsUpTo(InquiryPool, MaxArgInquiries)
    /\ result = NoResult

computeCreditScore ==
    /\ result = NoResult
    /\ result' =
         [score |-> ScoreOf(argAccounts, argInquiries, now),
          factors |-> getScoreFactors(argAccounts, argInquiries, now),
          recommendations |->
              getRecommendations(getScoreFactors(argAccounts, argInquiries, now))]
    /\ UNCHANGED <<argAccounts, argInquiries, now>>
    /\ UNCHANGED <<cibilVars, taxVars, simVars, cgVars, pageVars, shellVars>>

ScoreNext == computeCreditScore

SpecScore == ScoreInit /\ [][ScoreNext]_vars

Scored == result /= NoResult

(***************************************************************************)
(* The CIBILAdvisor component: its handlers, one action each.  The form    *)
(* (and with it every handler but the close button) is rendered only while *)
(* showDetails is false.  A handler that copies the list with [...list]    *)
(* and assigns through an element writes the object the element refers to. *)
(***************************************************************************)
\* The texts tried in each <input>/<select> of the form; "" clears the field.
AccountFieldValues(field) ==
    CASE field = "type" -> {"", "Credit Card"}
      [] field = "opened" -> {"", "2022-01-01"}
      [] field = "limit" -> {"", "100"}
      [] field = "balance" -> {"", "60"}
AccountFields == {"type", "opened", "limit", "balance"}

InquiryFieldValues(field) ==
    CASE field = "date" -> {"", "2024-07-01"}
      [] field = "type" -> {"", "Loan"}
InquiryFields == {"date", "type"}

PaymentFieldValues(field) ==
    CASE field = "date" -> {"", "2024-07-01"}
      [] field = "onTime" -> BOOLEAN
PaymentFields == {"date", "onTime"}

RemoveAt(s, idx) == [i \in 1..(Len(s) - 1) |-> IF i < idx THEN s[i] ELSE s[i + 1]]

\* the objects a list of references stands for
Deref(refs) == [i \in DOMAIN refs |-> heap[refs[i]]]

\* the form left on screen beside the details panel
FormShown_besidePanel == handlerCalls < MaxHandlerCalls

\* {!showDetails && ( ...the form... )}: the handlers are reachable only then
FormShown == ~showDetails /\ handlerCalls < MaxHandlerCalls

Called == handlerCalls' = handlerCalls + 1

\* const addAccount = () => setAccounts([...accounts, initialAccount])
addAccount ==
    /\ FormShown
    /\ Len(accounts) < MaxAccounts
    /\ accounts' = Append(accounts, AccountRef)
    /\ Called
    /\ UNCHANGED <<heap, inquiries, score, scoreHistory, showDetails, error,
                   success, calls, now>>
    /\ UNCHANGED <<harnessVars, taxVars, simVars, cgVars, pageVars, shellVars>>

\* const removeAccount = idx => setAccounts(accounts.filter((_, i) => i !== idx))
\* (the button is disabled while accounts.length === 1)
removeAccount ==
    /\ FormShown
    /\ Len(accounts) /= 1
    /\ \E idx \in DOMAIN accounts : accounts' = RemoveAt(accounts, idx)
    /\ Called
    /\ UNCHANGED <<heap, inquiries, score, scoreHistory, showDetails, error,
                   success, calls, now>>
    /\ UNCHANGED <<harnessVars, taxVars, simVars, cgVars, pageVars, shellVars>>

\* updated = [...accounts]; updated[idx][field] = value; setAccounts(updated)
updateAccount ==
    /\ FormShown
    /\ \E idx \in DOMAIN accounts, field \in AccountFields :
         \E value \in AccountFieldValues(field) :
            heap' = [heap EXCEPT ![accounts[idx]][field] = value]
    /\ Called
    /\ UNCHANGED <<accounts, inquiries, score, scoreHistory, showDetails, error,
                   success, calls, now>>
    /\ UNCHANGED <<harnessVars, taxVars, simVars, cgVars, pageVars, shellVars>>

\* updated = [...accounts]; updated[accIdx].paymentHistory[payIdx][field] = value
updatePaymentHistory ==
    /\ FormShown
    /\ \E accIdx \in DOMAIN accounts :
         \E payIdx \in DOMAIN heap[accounts[accIdx]].paymentHistory,
            field \in PaymentFields :
            \E value \in PaymentFieldValues(field) :
               heap' = [heap EXCEPT
                          ![accounts[accIdx]].paymentHistory[payIdx][field] = value]
    /\ Called
    /\ UNCHANGED <<accounts, inquiries, score, scoreHistory, showDetails, error,
                   success, calls, now>>
    /\ UNCHANGED <<harnessVars, taxVars, simVars, cgVars, pageVars, shellVars>>

\* updated = [...accounts]; updated[accIdx].paymentHistory.push({date: '', onTime: true})
addPaymentHistory ==
    /\ FormShown
    /\ \E accIdx \in DOMAIN accounts :
         /\ Len(heap[accounts[accIdx]].paymentHistory) < MaxPaymentRows
         /\ heap' = [heap EXCEPT ![accounts[accIdx]].paymentHistory =
                                    Append(@, PaymentRow("", TRUE))]
    /\ Called
    /\ UNCHANGED <<accounts, inquiries, score, scoreHistory, showDetails, error,
                   success, calls, now>>
    /\ UNCHANGED <<harnessVars, taxVars, simVars, cgVars, pageVars, shellVars>>

\* const addInquiry = () => setInquiries([...inquiries, initialInquiry])
addInquiry ==
    /\ FormShown
    /\ Len(inquiries) < MaxInquiries
    /\ inquiries' = Append(inquiries, InquiryRef)
    /\ Called
    /\ UNCHANGED <<heap, accounts, score, scoreHistory, showDetails, error,
                   success, calls, now>>
    /\ UNCHANGED <<harnessVars, taxVars, simVars, cgVars, pageVars, shellVars>>

\* const removeInquiry = idx => setInquiries(inquiries.filter((_, i) => i !== idx))
\* (the button is disabled while inquiries.length === 1)
removeInquiry ==
    /\ FormShown
    /\ Len(inquiries) /= 1
    /\ \E idx \in DOMAIN inquiries : inquiries' = RemoveAt(inquiries, idx)
    /\ Called
    /\ UNCHANGED <<heap, accounts, score, scoreHistory, showDetails, error,
                   success, calls, now>>
    /\ UNCHANGED <<harnessVars, taxVars, simVars, cgVars, pageVars, shellVars>>

\* updated = [...inquiries]; updated[idx][field] = value; setInquiries(updated)
updateInquiry ==
    /\ FormShown
    /\ \E idx \in DOMAIN inquiries, field \in InquiryFields :
         \E value \in InquiryFieldValues(field) :
            heap' = [heap EXCEPT ![inquiries[idx]][field] = value]
    /\ Called
    /\ UNCHANGED <<accounts, inquiries, score, scoreHistory, showDetails, error,
                   success, calls, now>>
    /\ UNCHANGED <<harnessVars, taxVars, simVars, cgVars, pageVars, shellVars>>

\* one scoring run as the log keeps it: what it read and what it showed
CallRecord(accs, inqs, t, sc) ==
    [accounts |-> accs, inquiries |-> inqs, now |-> t, score |-> sc,
     factors |-> getScoreFactors(accs, inqs, t),
     recommendations |-> getRecommendations(getScoreFactors(accs, inqs, t))]

\* the handler's effect with the score it computed
SetScore(base) ==
    /\ error' = ""
    /\ success' = "Score calculated!"
    /\ score' = base
    /\ scoreHistory' = Append(scoreHistory, [month |-> "Now", score |-> base])
    /\ showDetails' = TRUE
    /\ calls' = calls \cup {CallRecord(Deref(accounts), Deref(inquiries), now, base)}

calculateScore_fromHistory ==
    /\ FormShown
    /\ SetScore(ClampScore(RawScore(Deref(accounts), Deref(inquiries), now)
                           - BaseScore + scoreHistory[Len(scoreHistory)].score))
    /\ Called
    /\ UNCHANGED <<heap, accounts, inquiries, now>>
    /\ UNCHANGED <<harnessVars, taxVars, simVars, cgVars, pageVars, shellVars>>

\* const calculateScore = () => { ... } (lines 194-249), followed by the render
\* that derives scoreFactors and recommendations from the same state
calculateScore ==
    /\ FormShown
    /\ SetScore(ScoreOf(Deref(accounts), Deref(inquiries), now))
    /\ Called
    /\ UNCHANGED <<heap, accounts, inquiries, now>>
    /\ UNCHANGED <<harnessVars, taxVars, simVars, cgVars, pageVars, shellVars>>

\* the panel's close button: onClick={() => setShowDetails(false)}
closeDetails ==
    /\ showDetails
    /\ showDetails' = FALSE
    /\ UNCHANGED <<heap, accounts, inquiries, score, scoreHistory, error,
                   success, handlerCalls, calls, now>>
    /\ UNCHANGED <<harnessVars, taxVars, simVars, cgVars, pageVars, shellVars>>

\* time passes between two handler calls
Tick ==
    /\ \E t \in NowSet : t > now /\ now' = t
    /\ UNCHANGED cibilVars
    /\ UNCHANGED <<harnessVars, taxVars, simVars, cgVars, pageVars, shellVars>>

Init ==
    /\ CibilInit
    /\ ShellIdle
    /\ PagesIdle
    /\ GainsIdle
    /\ HarnessIdle
    /\ TaxIdle
    /\ SimIdle
    /\ now \in NowSet

Next ==
    \/ addAccount
    \/ removeAccount
    \/ updateAccount
    \/ updatePaymentHistory
    \/ addPaymentHistory
    \/ addInquiry
    \/ removeInquiry
    \/ updateInquiry
    \/ calculateScore
    \/ closeDetails
    \/ Tick

Spec == Init /\ [][Next]_vars

DeductionCodes == {"80C", "80D", "24B"}

\* the per-code statutory ceilings
Ceiling(code) ==
    CASE code = "80C" -> 150000
      [] code = "80D" -> 100000
      [] code = "24B" -> 200000

\* the deduction codes each regime permits: the new regime's set is strictly
\* smaller than the old regime's
RegimeCodes(regime) == IF regime = "old" THEN DeductionCodes ELSE {}

\* slabs as [lower, upper, rate%]; the last slab is open ended
OpenEnded == 2000000000
Slabs(regime) ==
    IF regime = "old"
    THEN << [lower |-> 0, upper |-> 250000, rate |-> 0],
            [lower |-> 250000, upper |-> 500000, rate |-> 5],
            [lower |-> 500000, upper |-> 1000000, rate |-> 20],
            [lower |-> 1000000, upper |-> OpenEnded, rate |-> 30] >>
    ELSE << [lower |-> 0, upper |-> 300000, rate |-> 0],
            [lower |-> 300000, upper |-> 700000, rate |-> 5],
            [lower |-> 700000, upper |-> 1000000, rate |-> 10],
            [lower |-> 1000000, upper |-> 1200000, rate |-> 15],
            [lower |-> 1200000, upper |-> 1500000, rate |-> 20],
            [lower |-> 1500000, upper |-> OpenEnded, rate |-> 30] >>

\* health and education cess, in percent of the base tax
CessPercent == 4

\* the cumulative share of the annual liability due by each quarter, in percent
CumulativePercent == <<15, 45, 75, 100>>

\* round half up of the non-negative ratio n / d, d even
RoundDiv(n, d) == (n + d \div 2) \div d

\* a claim taken as it is, whatever its ceiling
ClampClaim_unclamped(code, amount) == amount

ClampClaim(code, amount) == Min(amount, Ceiling(code))

RECURSIVE SumOver(_, _)
SumOver(f, S) ==
    IF S = {} THEN 0
    ELSE LET x == CHOOSE y \in S : TRUE IN f[x] + SumOver(f, S \ {x})

\* the claims a regime honours, each clamped to its ceiling, summed
DeductionsUnclamped(profile, regime) ==
    SumOver(profile.deduction_claims, RegimeCodes(regime))

DeductionsClaimed(profile, regime) ==
    SumOver([c \in DeductionCodes |-> ClampClaim(c, profile.deduction_claims[c])],
            RegimeCodes(regime))

\* the part of the income that falls in one slab, times the slab's rate; every
\* rate is a multiple of 5%, so the product is kept in twentieths of a rupee
SlabTax(slab, income) ==
    IF income > slab.lower
    THEN (Min(income, slab.upper) - slab.lower) * (slab.rate \div 5)
    ELSE 0

\* base tax in twentieths of a rupee
BaseTax(regime, income) ==
    SumSeq([i \in DOMAIN Slabs(regime) |-> SlabTax(Slabs(regime)[i], income)])

\* base tax plus cess, rounded to the rupee only here
TaxPayable(regime, income) ==
    RoundDiv(BaseTax(regime, income) * (100 + CessPercent), 2000)

RegimeResult(profile, regime) ==
    LET claimed == DeductionsClaimed(profile, regime)
        taxable == profile.gross_income - claimed
    IN [taxable_income |-> taxable,
        tax_payable |-> TaxPayable(regime, taxable),
        deductions_claimed |-> claimed]

\* the schedule holding the cumulative figure due by each quarter
ScheduleCumulative(tax) ==
    [q \in 1..4 |-> IF q = 4 THEN tax ELSE RoundDiv(tax * CumulativePercent[q], 100)]

\* a schedule that lists the cumulative figures instead of the increments
AdvanceTaxSchedule_cumulative(tax) == ScheduleCumulative(tax)

\* the increment due at each quarter; the last installment is what remains
AdvanceTaxSchedule(tax) ==
    [q \in 1..4 |->
        IF q = 1 THEN ScheduleCumulative(tax)[1]
        ELSE ScheduleCumulative(tax)[q] - ScheduleCumulative(tax)[q - 1]]

\* the regime recommended when ties go to the old regime
RecommendedRegime_tiesToOld(old, new) ==
    IF old.tax_payable <= new.tax_payable THEN "old" ELSE "new"

\* the regime with the lower tax_payable, ties broken toward "new"
RecommendedRegime(old, new) ==
    IF old.tax_payable < new.tax_payable THEN "old" ELSE "new"

Abs(x) == IF x < 0 THEN -x ELSE x

ValidProfile(profile) ==
    /\ profile.gross_income >= 0
    /\ \A c \in DeductionCodes : profile.deduction_claims[c] >= 0

compare(profile) ==
    IF ~ValidProfile(profile)
    THEN [kind |-> "InvalidInputError"]
    ELSE LET old == RegimeResult(profile, "old")
             new == RegimeResult(profile, "new")
             rec == RecommendedRegime(old, new)
         IN [kind |-> "TaxComparison",
             old_regime |-> old,
             new_regime |-> new,
             recommended_regime |-> rec,
             savings |-> Abs(old.tax_payable - new.tax_payable),
             advance_tax_schedule |->
                 AdvanceTaxSchedule(IF rec = "old" THEN old.tax_payable
                                                   ELSE new.tax_payable)]

IncomeSet ==
    { 250000 * k : k \in 0..IncomeSteps } \cup {-1, 777777, 800000, 1234567}
ClaimSet == { 50000 * k : k \in 0..ClaimSteps } \cup {-1}

TaxInit ==
    /\ CibilInit
    /\ ShellIdle
    /\ PagesIdle
    /\ GainsIdle
    /\ HarnessIdle
    /\ SimIdle
    /\ now = FirstNow
    /\ taxProfile \in [gross_income : IncomeSet,
                       deduction_claims : [DeductionCodes -> ClaimSet]]
    /\ taxOutcome = NoOutcome

compareTaxRegimes ==
    /\ taxOutcome = NoOutcome
    /\ taxOutcome' = compare(taxProfile)
    /\ UNCHANGED <<taxProfile, now>>
    /\ UNCHANGED <<cibilVars, harnessVars, simVars, cgVars, pageVars, shellVars>>

TaxNext == compareTaxRegimes

SpecTax == TaxInit /\ [][TaxNext]_vars

Compared == taxOutcome.kind = "TaxComparison"

(***************************************************************************)
(* Debt repayment simulator: simulate(debts, strategy, total_monthly_      *)
(* budget?) -> timeline.  It runs in the back end, behind POST             *)
(* /debt/{user_id}/simulate; the model follows the algorithm of the        *)
(* specification, one action per month of the loop.  Money is in whole     *)
(* currency units and interest is rounded to the nearest unit.             *)
(***************************************************************************)
Debt(lender, principal, annual_rate, minimum_payment) ==
    [lender |-> lender, principal |-> principal,
     annual_rate |-> annual_rate, minimum_payment |-> minimum_payment]

\* the hard cap on the simulated horizon, in months
HorizonCap == 600

\* interest accrued in one month on a balance, at annual_rate / 12
MonthlyInterest(balance, annual_rate) == RoundDiv(balance * annual_rate, 1200)

\* a flag computation that flags no debt
IsNegativeAmortization_never(d) == FALSE

\* a debt whose minimum payment is less than its monthly interest accrual
IsNegativeAmortization(d) ==
    d.minimum_payment < MonthlyInterest(d.principal, d.annual_rate)

\* the warnings raised before simulation begins
InitialWarnings(debts) ==
    IF \E i \in 1..Len(debts) : IsNegativeAmortization(debts[i])
    THEN {"negative_amortization"} ELSE {}

SumOfMinimums(debts) == SumSeq([i \in 1..Len(debts) |-> debts[i].minimum_payment])

\* the budget of a month: the given one, else the sum of the minimum payments
MonthlyBudget(input) ==
    IF input.budget.given THEN input.budget.amount ELSE SumOfMinimums(input.debts)

\* what the budget leaves beyond the sum of the minimums
Surplus(input) == Max(0, MonthlyBudget(input) - SumOfMinimums(input.debts))

\* step 1: every balance with its interest of the month
Accrue(balances, debts) ==
    [i \in 1..Len(debts) |->
        balances[i] + MonthlyInterest(balances[i], debts[i].annual_rate)]

\* step 2: the minimum payment on every debt, at most what is owed
PayMinimums(balances, debts) ==
    [i \in 1..Len(debts) |->
        balances[i] - Min(debts[i].minimum_payment, balances[i])]

\* a ranking whose avalanche order is ascending by annual rate
RankedBefore_ascendingRate(i, j, balances, debts, strategy) ==
    IF strategy = "snowball"
    THEN \/ balances[i] < balances[j]
         \/ balances[i] = balances[j] /\ i <= j
    ELSE \/ debts[i].annual_rate < debts[j].annual_rate
         \/ debts[i].annual_rate = debts[j].annual_rate /\ i <= j

\* step 3: debt i is ranked before debt j (ties keep the order of the input)
RankedBefore(i, j, balances, debts, strategy) ==
    IF strategy = "snowball"
    THEN \/ balances[i] < balances[j]
         \/ balances[i] = balances[j] /\ i <= j
    ELSE \/ debts[i].annual_rate > debts[j].annual_rate
         \/ debts[i].annual_rate = debts[j].annual_rate /\ i <= j

RECURSIVE RankFrom(_, _, _, _)
RankFrom(S, balances, debts, strategy) ==
    IF S = {} THEN <<>>
    ELSE LET top == CHOOSE i \in S :
                        \A j \in S : RankedBefore(i, j, balances, debts, strategy)
         IN <<top>> \o RankFrom(S \ {top}, balances, debts, strategy)

\* the remaining debts in the order of the strategy
Ranking(balances, debts, strategy) ==
    RankFrom({ i \in 1..Len(debts) : balances[i] > 0 }, balances, debts, strategy)

\* the surplus goes to the top-ranked debt and cascades to the next ones
RECURSIVE ApplySurplus(_, _, _)
ApplySurplus(balances, order, surplus) ==
    IF order = <<>> \/ surplus = 0 THEN balances
    ELSE LET i == Head(order)
             paid == Min(surplus, balances[i])
         IN ApplySurplus([balances EXCEPT ![i] = @ - paid],
                         Tail(order), surplus - paid)

\* the balances after one month of the loop: the minimums are paid, then
\* what is left of the total monthly budget goes to the ranked debts
MonthEnd(balances, input) ==
    LET accrued == Accrue(balances, input.debts)
        afterMin == PayMinimums(accrued, input.debts)
        paid == SumSeq(accrued) - SumSeq(afterMin)
    IN ApplySurplus(afterMin, Ranking(afterMin, input.debts, input.strategy),
                    Max(0, MonthlyBudget(input) - paid))

\* the interest of one month, summed over the debts
InterestOfMonth(balances, debts) ==
    SumSeq([i \in 1..Len(debts) |->
               MonthlyInterest(balances[i], debts[i].annual_rate)])

\* step 4: the entry recorded for the month
TimelineEntry(month, balances, input) ==
    [month |-> month,
     total_debt_remaining |-> SumSeq(MonthEnd(balances, input)),
     interest_paid_this_month |-> InterestOfMonth(balances, input.debts)]

AllPaid(balances) == \A i \in 1..Len(balances) : balances[i] <= 0

\* The debts tried: the two of the specification's scenario, a small
\* low-rate debt, one whose minimum payment equals its monthly interest and
\* one whose minimum payment is half of it.
DebtPool ==
    { Debt("A", 10000, 24, 500), Debt("B", 50000, 12, 1200),
      Debt("C", 3000, 6, 200), Debt("E", 1000, 12, 10),
      Debt("N", 1000, 12, 5) }

BudgetsFor(debts) ==
    { [given |-> FALSE, amount |-> 0] } \cup
    { [given |-> TRUE, amount |-> SumOfMinimums(debts) + 1000 * k] :
          k \in 0..ExtraSteps }

SimInputs ==
    UNION { { [debts |-> ds, strategy |-> st, budget |-> b] :
                  st \in {"snowball", "avalanche"}, b \in BudgetsFor(ds) } :
            ds \in SeqsUpTo(DebtPool, MaxDebts) }

DebtInit ==
    /\ CibilInit
    /\ ShellIdle
    /\ PagesIdle
    /\ GainsIdle
    /\ HarnessIdle
    /\ TaxIdle
    /\ now = FirstNow
    /\ simInput \in SimInputs
    /\ simPhase = "idle"
    /\ simBalances = <<>>
    /\ simTimeline = <<>>
    /\ simWarnings = {}
    /\ simInterest = 0
    /\ simLog = {}

\* the call: the debts are flagged, then the loop starts on the principals
simulate ==
    /\ simPhase = "idle"
    /\ simPhase' = "running"
    /\ simWarnings' = InitialWarnings(simInput.debts)
    /\ simBalances' = [i \in 1..Len(simInput.debts) |-> simInput.debts[i].principal]
    /\ simTimeline' = <<>>
    /\ simInterest' = 0
    /\ UNCHANGED <<simInput, simLog, now>>
    /\ UNCHANGED <<cibilVars, harnessVars, taxVars, cgVars, pageVars, shellVars>>

\* one month of the loop
simulateMonth ==
    /\ simPhase = "running"
    /\ ~AllPaid(simBalances)
    /\ Len(simTimeline) < HorizonCap
    /\ simBalances' = MonthEnd(simBalances, simInput)
    /\ simTimeline' =
          Append(simTimeline,
                 TimelineEntry(Len(simTimeline) + 1, simBalances, simInput))
    /\ simInterest' = simInterest + InterestOfMonth(simBalances, simInput.debts)
    /\ UNCHANGED <<simInput, simPhase, simWarnings, simLog, now>>
    /\ UNCHANGED <<cibilVars, harnessVars, taxVars, cgVars, pageVars, shellVars>>

\* what the call returns to DebtDashboard: the strategy, the months, the
\* total interest and the warnings (the timeline is simTimeline)
SimulationResult(input, timeline, interest, warnings) ==
    [input |-> input, months |-> Len(timeline),
     total_interest |-> interest, warnings |-> warnings]

\* a return that truncates the timeline at the cap without a flag
simulateReturn_unflagged ==
    /\ simPhase = "running"
    /\ AllPaid(simBalances) \/ Len(simTimeline) >= HorizonCap
    /\ simPhase' = "done"
    /\ simWarnings' = simWarnings
    /\ simLog' = simLog \cup {SimulationResult(simInput, simTimeline, simInterest, simWarnings')}
    /\ UNCHANGED <<simInput, simBalances, simTimeline, simInterest, now>>
    /\ UNCHANGED <<cibilVars, harnessVars, taxVars, cgVars, pageVars, shellVars>>

\* the loop ends: every debt is paid, or the horizon cap is reached
simulateReturn ==
    /\ simPhase = "running"
    /\ AllPaid(simBalances) \/ Len(simTimeline) >= HorizonCap
    /\ simPhase' = "done"
    /\ simWarnings' = IF AllPaid(simBalances) THEN simWarnings
                      ELSE simWarnings \cup {"non_convergent"}
    /\ simLog' = simLog \cup {SimulationResult(simInput, simTimeline, simInterest, simWarnings')}
    /\ UNCHANGED <<simInput, simBalances, simTimeline, simInterest, now>>
    /\ UNCHANGED <<cibilVars, harnessVars, taxVars, cgVars, pageVars, shellVars>>

DebtNext == simulate \/ simulateMonth \/ simulateReturn

SpecDebt == DebtInit /\ [][DebtNext]_vars

Simulated == simPhase = "done"

\* The loop is sequential code: a call that has started keeps running.
\* The requests tried here leave the budget out.
FairInit ==
    /\ DebtInit
    /\ ~simInput.budget.given
    /\ simInput.strategy = "snowball"

SpecDebtFair == FairInit /\ [][DebtNext]_vars /\ WF_vars(DebtNext)

(***************************************************************************)
(* The two strategies on one request: DebtDashboard's strategy selector    *)
(* is set to the other strategy and the simulation is requested again for  *)
(* the same debts and budget.                                              *)
(***************************************************************************)
\* The debts tried under both strategies.  Their rates make the interest of
\* a month a whole number of units, so that no amount is rounded on the way.
StrategyPool ==
    { Debt("P", 100, 1200, 120), Debt("Q", 300, 1200, 320),
      Debt("R", 200, 2400, 450), Debt("S", 500, 0, 50),
      Debt("T", 150, 0, 10), Debt("U", 400, 2400, 850) }

\* the requests tried: at least two debts, every budget of BudgetSteps
StrategyInputs ==
    UNION { { [debts |-> ds, strategy |-> st,
               budget |-> [given |-> TRUE,
                           amount |-> SumOfMinimums(ds) + 35 * k]] :
                  st \in {"snowball", "avalanche"}, k \in 0..BudgetSteps } :
            ds \in { d \in SeqsUpTo(StrategyPool, MaxDebts) : Len(d) >= 2 } }

StrategyInit ==
    /\ CibilInit
    /\ ShellIdle
    /\ PagesIdle
    /\ GainsIdle
    /\ HarnessIdle
    /\ TaxIdle
    /\ now = FirstNow
    /\ simInput \in StrategyInputs
    /\ simPhase = "idle"
    /\ simBalances = <<>>
    /\ simTimeline = <<>>
    /\ simWarnings = {}
    /\ simInterest = 0
    /\ simLog = {}

\* setStrategy, then handleSimulate once more
simulateOtherStrategy ==
    /\ simPhase = "done"
    /\ Cardinality(simLog) < MaxRequests
    /\ \E st \in {"snowball", "avalanche"} :
          /\ st /= simInput.strategy
          /\ simInput' = [simInput EXCEPT !.strategy = st]
    /\ simPhase' = "idle"
    /\ simBalances' = <<>>
    /\ simTimeline' = <<>>
    /\ simWarnings' = {}
    /\ simInterest' = 0
    /\ UNCHANGED <<simLog, now>>
    /\ UNCHANGED <<cibilVars, harnessVars, taxVars, cgVars, pageVars, shellVars>>

StrategyNext == DebtNext \/ simulateOtherStrategy

SpecStrategies == StrategyInit /\ [][StrategyNext]_vars

(***************************************************************************)
(* Capital gains analyzer: classify(trades) -> (records, unmatchedErrors). *)
(* It runs in the back end; the model follows the specification: one       *)
(* queue of unconsumed buy lots per instrument, consumed first in first    *)
(* out.  Dates are in days.                                                *)
(***************************************************************************)
Trade(trade_date, instrument, type, quantity, price) ==
    [trade_date |-> trade_date, instrument |-> instrument, type |-> type,
     quantity |-> quantity, price |-> price]

Instruments == {"INFY", "GSEC"}

\* the holding period beyond which a gain is long-term, per instrument class
LongTermThreshold(instrument) ==
    CASE instrument = "INFY" -> 365
      [] instrument = "GSEC" -> 1095

GainRecord(sell, lot, quantity) ==
    [trade_date |-> sell.trade_date,
     instrument |-> sell.instrument,
     quantity |-> quantity,
     buy_price |-> lot.price,
     sell_price |-> sell.price,
     gain_loss |-> (sell.price - lot.price) * quantity,
     holding_period_days |-> sell.trade_date - lot.trade_date,
     term |-> IF sell.trade_date - lot.trade_date
                    > LongTermThreshold(sell.instrument)
              THEN "long" ELSE "short"]

UnmatchedSellError(sell, quantity) ==
    [kind |-> "UnmatchedSellError", record |-> sell, unmatched_quantity |-> quantity]

\* a matching that takes the whole quantity of the sell from the first lot,
\* whatever that lot has left
MatchSell_overdraw(lots, sell, quantity) ==
    IF lots = <<>>
    THEN [lots |-> <<>>, records |-> <<>>, unmatched |-> quantity]
    ELSE [lots |-> IF Head(lots).remaining > quantity
                   THEN <<[Head(lots) EXCEPT !.remaining = @ - quantity]>>
                            \o Tail(lots)
                   ELSE Tail(lots),
          records |-> <<GainRecord(sell, Head(lots), quantity)>>,
          unmatched |-> 0]

\* A sell consumes the queue of its instrument from the front: the earliest
\* lot first, at most what that lot has left, then the next lot.
RECURSIVE MatchSell(_, _, _)
MatchSell(lots, sell, quantity) ==
    IF quantity = 0 \/ lots = <<>>
    THEN [lots |-> lots, records |-> <<>>, unmatched |-> quantity]
    ELSE LET lot == Head(lots)
             taken == Min(quantity, lot.remaining)
             rest == MatchSell(Tail(lots), sell, quantity - taken)
         IN IF taken = lot.remaining
            THEN [rest EXCEPT
                    !.records = <<GainRecord(sell, lot, taken)>> \o @]
            ELSE [lots |-> <<[lot EXCEPT !.remaining = @ - taken]>> \o Tail(lots),
                  records |-> <<GainRecord(sell, lot, taken)>>,
                  unmatched |-> 0]

\* classify without the error tier: the first unmatched sell aborts the
\* batch and nothing after it is classified
ClassifyTrade_aborting(st, trade) ==
    IF st.errors /= <<>> THEN st
    ELSE IF trade.type = "buy"
    THEN [st EXCEPT !.lots[trade.instrument] =
             Append(@, [trade_date |-> trade.trade_date, price |-> trade.price,
                        remaining |-> trade.quantity])]
    ELSE LET m == MatchSell(st.lots[trade.instrument], trade, trade.quantity)
         IN IF m.unmatched > 0
            THEN [st EXCEPT !.errors =
                     Append(@, UnmatchedSellError(trade, m.unmatched))]
            ELSE [lots |-> [st.lots EXCEPT ![trade.instrument] = m.lots],
                  records |-> st.records \o m.records,
                  errors |-> st.errors]

\* one trade of the batch: a buy opens a lot, a sell is matched
ClassifyTrade(st, trade) ==
    IF trade.type = "buy"
    THEN [st EXCEPT !.lots[trade.instrument] =
             Append(@, [trade_date |-> trade.trade_date, price |-> trade.price,
                        remaining |-> trade.quantity])]
    ELSE LET m == MatchSell(st.lots[trade.instrument], trade, trade.quantity)
         IN [lots |-> [st.lots EXCEPT ![trade.instrument] = m.lots],
             records |-> st.records \o m.records,
             errors |-> IF m.unmatched > 0
                        THEN Append(st.errors, UnmatchedSellError(trade, m.unmatched))
                        ELSE st.errors]

RECURSIVE ClassifyFrom(_, _, _)
ClassifyFrom(k, st, trades) ==
    IF k > Len(trades) THEN st
    ELSE ClassifyFrom(k + 1, ClassifyTrade(st, trades[k]), trades)

\* classify(trades): the queues are local to the call
classify(trades) ==
    LET end == ClassifyFrom(1, [lots |-> [i \in Instruments |-> <<>>],
                                records |-> <<>>, errors |-> <<>>], trades)
    IN [kind |-> "Classification", records |-> end.records,
        errors |-> end.errors]

\* The trades tried, before they are dated: the k-th trade of a batch is
\* made on day FirstTradeDay + TradeGapDays * k.
TradePool ==
    { Trade(0, "INFY", "buy", 10, 100), Trade(0, "INFY", "buy", 4, 110),
      Trade(0, "GSEC", "buy", 6, 50),
      Trade(0, "INFY", "sell", 4, 120), Trade(0, "INFY", "sell", 6, 90),
      Trade(0, "INFY", "sell", 10, 130), Trade(0, "GSEC", "sell", 6, 60) }

TradeDay(k) == 19000 + 200 * k

Dated(s) == [k \in 1..Len(s) |-> [s[k] EXCEPT !.trade_date = TradeDay(k)]]

Batches == { Dated(s) : s \in SeqsUpTo(TradePool, MaxTrades) }

GainsInit ==
    /\ CibilInit
    /\ ShellIdle
    /\ PagesIdle
    /\ HarnessIdle
    /\ TaxIdle
    /\ SimIdle
    /\ now = FirstNow
    /\ cgTrades \in Batches
    /\ cgResult = NoOutcome

classifyCapitalGains ==
    /\ cgResult = NoOutcome
    /\ cgResult' = classify(cgTrades)
    /\ UNCHANGED <<cgTrades, now>>
    /\ UNCHANGED <<cibilVars, harnessVars, taxVars, simVars, pageVars, shellVars>>

GainsNext == classifyCapitalGains

SpecGains == GainsInit /\ [][GainsNext]_vars

Classified == cgResult.kind = "Classification"

(***************************************************************************)
(* DebtDashboard: the page that lists the user's debts, takes debts from   *)
(* the Add Debt form and from uploaded files, and asks the back end for a  *)
(* repayment simulation.  A request in flight is an entry of debtRequests; *)
(* it settles with a response or fails (the fetch rejects or the body is   *)
(* not JSON), in any order.  storedDebts is what the back end holds under  *)
(* the user id, the only debts a request that carries just the user id and *)
(* the strategy can be run on.                                             *)
(***************************************************************************)
mockUserId == "mock-user-id"

\* parseFloat(text): the number a text starts with, NaN if it starts with none
ParseFloat(text) ==
    CASE text = "5000" -> [nan |-> FALSE, value |-> 5000]
      [] text = "12" -> [nan |-> FALSE, value |-> 12]
      [] text = "200" -> [nan |-> FALSE, value |-> 200]
      [] OTHER -> [nan |-> TRUE, value |-> 0]

FormFields == {"name", "amount", "rate", "minPayment"}

\* what the user types into a field of the Add Debt form
FormFieldValues(field) ==
    CASE field = "name" -> {"", "Friend"}
      [] field = "amount" -> {"", "5000"}
      [] field = "rate" -> {"", "12"}
      [] field = "minPayment" -> {"", "200"}

\* a debt as the back end lists it
StoredDebt(lender, principal) == [lender |-> lender, principal |-> principal]

\* the debts the back end reads out of an uploaded file; none if it rejects it
UploadFiles == {"loans.csv", "notes.txt"}
DebtsOfFile(file) ==
    IF file = "loans.csv" THEN <<StoredDebt("HDFC", 250000)>> ELSE <<>>

\* what the back end holds for the user when the page is opened
StoredAtMount == { <<>>, <<StoredDebt("Car Loan", 400000)>> }

ListRequest == [kind |-> "list", user_id |-> mockUserId]

PageCalled == pageCalls' = pageCalls + 1

\* useEffect(() => { fetch(`/debt/list?user_id=...`)... }, []) at mount
DebtPageMounted ==
    /\ listedDebts = <<>>
    /\ form = BlankForm
    /\ chosenStrategy = "snowball"
    /\ simulation = NoSimulation
    /\ loading = FALSE
    /\ uploadError = ""
    /\ uploadSuccess = ""
    /\ storedDebts \in StoredAtMount
    /\ debtRequests = <<ListRequest>>

\* setForm({ ...form, [e.target.name]: e.target.value })
handleChange ==
    /\ \E field \in FormFields :
         \E value \in FormFieldValues(field) :
            form' = [form EXCEPT ![field] = value]
    /\ UNCHANGED <<listedDebts, chosenStrategy, simulation, loading, uploadError,
                   uploadSuccess, storedDebts, debtRequests, pageCalls>>
    /\ UNCHANGED <<analyzerVars, cibilVars, harnessVars, taxVars, simVars, cgVars, shellVars, now>>

\* if (!form.name || !form.amount || !form.rate || !form.minPayment) return;
\* setDebts([...debts, {name, amount: parseFloat(...), ...}]); setForm(blank)
handleAddDebt ==
    /\ pageCalls < MaxPageCalls
    /\ IF form.name = "" \/ form.amount = "" \/ form.rate = "" \/ form.minPayment = ""
       THEN UNCHANGED <<listedDebts, form>>
       ELSE /\ listedDebts' = Append(listedDebts,
                                 [name |-> form.name,
                                  amount |-> ParseFloat(form.amount),
                                  rate |-> ParseFloat(form.rate),
                                  minPayment |-> ParseFloat(form.minPayment)])
            /\ form' = BlankForm
    /\ PageCalled
    /\ UNCHANGED <<chosenStrategy, simulation, loading, uploadError,
                   uploadSuccess, storedDebts, debtRequests>>
    /\ UNCHANGED <<analyzerVars, cibilVars, harnessVars, taxVars, simVars, cgVars, shellVars, now>>

\* <select value={strategy} onChange={(e) => setStrategy(e.target.value)}>
setStrategy ==
    /\ pageCalls < MaxPageCalls
    /\ \E value \in {"snowball", "avalanche"} :
         /\ value /= chosenStrategy
         /\ chosenStrategy' = value
    /\ PageCalled
    /\ UNCHANGED <<listedDebts, form, simulation, loading, uploadError,
                   uploadSuccess, storedDebts, debtRequests>>
    /\ UNCHANGED <<analyzerVars, cibilVars, harnessVars, taxVars, simVars, cgVars, shellVars, now>>

\* the body of the simulate request: user_id and strategy, nothing else
SimulateRequest(st) == [kind |-> "simulate", user_id |-> mockUserId, strategy |-> st]

\* handleSimulate up to its first await (the button is disabled while loading)
handleSimulate ==
    /\ pageCalls < MaxPageCalls
    /\ ~loading
    /\ loading' = TRUE
    /\ debtRequests' = Append(debtRequests, SimulateRequest(chosenStrategy))
    /\ PageCalled
    /\ UNCHANGED <<listedDebts, form, chosenStrategy, simulation, uploadError,
                   uploadSuccess, storedDebts>>
    /\ UNCHANGED <<analyzerVars, cibilVars, harnessVars, taxVars, simVars, cgVars, shellVars, now>>

\* the data of a simulate response: the run over the debts held for the user
SimulationData(req) ==
    [kind |-> "simulation", strategy |-> req.strategy, debts |-> storedDebts]

\* const data = await res.json(); setSimulation(data); setLoading(false);
simulateResponds ==
    /\ \E i \in DOMAIN debtRequests :
         /\ debtRequests[i].kind = "simulate"
         /\ simulation' = SimulationData(debtRequests[i])
         /\ loading' = FALSE
         /\ debtRequests' = RemoveAt(debtRequests, i)
    /\ UNCHANGED <<listedDebts, form, chosenStrategy, uploadError, uploadSuccess,
                   storedDebts, pageCalls>>
    /\ UNCHANGED <<analyzerVars, cibilVars, harnessVars, taxVars, simVars, cgVars, shellVars, now>>

\* await fetch(...) rejects or await res.json() throws: handleSimulate ends
\* there, no catch and no finally
simulateFails ==
    /\ \E i \in DOMAIN debtRequests :
         /\ debtRequests[i].kind = "simulate"
         /\ debtRequests' = RemoveAt(debtRequests, i)
    /\ UNCHANGED <<listedDebts, form, chosenStrategy, simulation, loading,
                   uploadError, uploadSuccess, storedDebts, pageCalls>>
    /\ UNCHANGED <<analyzerVars, cibilVars, harnessVars, taxVars, simVars, cgVars, shellVars, now>>

\* handleFileUpload up to its first await; no file chosen: return
handleFileUpload ==
    /\ pageCalls < MaxPageCalls
    /\ uploadError' = ""
    /\ uploadSuccess' = ""
    /\ \/ UNCHANGED debtRequests
       \/ \E file \in UploadFiles :
            debtRequests' = Append(debtRequests,
                                   [kind |-> "ingest", user_id |-> mockUserId, file |-> file])
    /\ PageCalled
    /\ UNCHANGED <<listedDebts, form, chosenStrategy, simulation, loading, storedDebts>>
    /\ UNCHANGED <<analyzerVars, cibilVars, harnessVars, taxVars, simVars, cgVars, shellVars, now>>

\* if (data.success) { setUploadSuccess(...); fetch(list)... } else setUploadError(...)
ingestResponds ==
    /\ \E i \in DOMAIN debtRequests :
         /\ debtRequests[i].kind = "ingest"
         /\ IF DebtsOfFile(debtRequests[i].file) /= <<>>
            THEN /\ storedDebts' = storedDebts \o DebtsOfFile(debtRequests[i].file)
                 /\ uploadSuccess' = "Uploaded successfully!"
                 /\ debtRequests' = Append(RemoveAt(debtRequests, i), ListRequest)
                 /\ UNCHANGED uploadError
            ELSE /\ uploadError' = "Upload failed. Please check your file format."
                 /\ debtRequests' = RemoveAt(debtRequests, i)
                 /\ UNCHANGED <<storedDebts, uploadSuccess>>
    /\ UNCHANGED <<listedDebts, form, chosenStrategy, simulation, loading, pageCalls>>
    /\ UNCHANGED <<analyzerVars, cibilVars, harnessVars, taxVars, simVars, cgVars, shellVars, now>>

\* catch (err) { setUploadError("Error uploading file. Try again."); }
ingestFails ==
    /\ \E i \in DOMAIN debtRequests :
         /\ debtRequests[i].kind = "ingest"
         /\ debtRequests' = RemoveAt(debtRequests, i)
    /\ uploadError' = "Error uploading file. Try again."
    /\ UNCHANGED <<listedDebts, form, chosenStrategy, simulation, loading,
                   uploadSuccess, storedDebts, pageCalls>>
    /\ UNCHANGED <<analyzerVars, cibilVars, harnessVars, taxVars, simVars, cgVars, shellVars, now>>

\* .then((data) => { if (data.debts) setDebts(data.debts); }); a failed
\* request leaves the list as it is
listSettles ==
    /\ \E i \in DOMAIN debtRequests :
         /\ debtRequests[i].kind = "list"
         /\ debtRequests' = RemoveAt(debtRequests, i)
    /\ \/ listedDebts' = storedDebts
       \/ UNCHANGED listedDebts
    /\ UNCHANGED <<form, chosenStrategy, simulation, loading, uploadError,
                   uploadSuccess, storedDebts, pageCalls>>
    /\ UNCHANGED <<analyzerVars, cibilVars, harnessVars, taxVars, simVars, cgVars, shellVars, now>>

DebtPageSettles ==
    \/ simulateResponds
    \/ simulateFails
    \/ ingestResponds
    \/ ingestFails
    \/ listSettles

DebtPageNext ==
    \/ handleChange
    \/ handleAddDebt
    \/ setStrategy
    \/ handleSimulate
    \/ handleFileUpload
    \/ DebtPageSettles

(***************************************************************************)
(* CapitalGainsAnalyzer: the page that lists the user's gains, uploads     *)
(* broker statements and asks the back end for the analysis.  One loading  *)
(* flag serves the upload and the analysis.                                *)
(***************************************************************************)
\* data.gains of a list response, [] standing in where the field is absent
GainsListed == { <<>>, <<"INFY">> }

AnalysisData == [kind |-> "analysis"]

\* useEffect(() => { fetchGains(); }, []) at mount
AnalyzerMounted ==
    /\ gains = <<>>
    /\ analysis = NoAnalysis
    /\ analyzerLoading = FALSE
    /\ analyzerUpload = NoUploadMessage
    /\ analyzerRequests = <<[kind |-> "gains", upload |-> FALSE]>>

\* the analyzer's handleFileUpload up to its first await; no file: return
analyzerFileUpload ==
    /\ pageCalls < MaxPageCalls
    /\ analyzerUpload' = NoUploadMessage
    /\ \/ UNCHANGED <<analyzerLoading, analyzerRequests>>
       \/ \E file \in UploadFiles :
            /\ analyzerLoading' = TRUE
            /\ analyzerRequests' = Append(analyzerRequests, [kind |-> "ingest", file |-> file])
    /\ PageCalled
    /\ UNCHANGED <<gains, analysis>>
    /\ UNCHANGED <<debtPageVars, cibilVars, harnessVars, taxVars, simVars, cgVars, shellVars, now>>

\* if (data.success) { setUploadSuccess(...); await fetchGains(); }
\* else setUploadError("Upload failed..."); ... setLoading(false)
analyzerIngestResponds ==
    /\ \E i \in DOMAIN analyzerRequests :
         /\ analyzerRequests[i].kind = "ingest"
         /\ IF analyzerRequests[i].file = "loans.csv"
            THEN /\ analyzerUpload' = [analyzerUpload EXCEPT !.success = "Uploaded successfully!"]
                 /\ analyzerRequests' = Append(RemoveAt(analyzerRequests, i),
                                               [kind |-> "gains", upload |-> TRUE])
                 /\ UNCHANGED analyzerLoading
            ELSE /\ analyzerUpload' = [analyzerUpload EXCEPT
                                         !.error = "Upload failed. Please check your file format."]
                 /\ analyzerRequests' = RemoveAt(analyzerRequests, i)
                 /\ analyzerLoading' = FALSE
    /\ UNCHANGED <<gains, analysis, pageCalls>>
    /\ UNCHANGED <<debtPageVars, cibilVars, harnessVars, taxVars, simVars, cgVars, shellVars, now>>

\* catch { setUploadError("Error uploading file. Try again."); } setLoading(false)
analyzerIngestFails ==
    /\ \E i \in DOMAIN analyzerRequests :
         /\ analyzerRequests[i].kind = "ingest"
         /\ analyzerRequests' = RemoveAt(analyzerRequests, i)
    /\ analyzerUpload' = [analyzerUpload EXCEPT !.error = "Error uploading file. Try again."]
    /\ analyzerLoading' = FALSE
    /\ UNCHANGED <<gains, analysis, pageCalls>>
    /\ UNCHANGED <<debtPageVars, cibilVars, harnessVars, taxVars, simVars, cgVars, shellVars, now>>

\* fetchGains: setGains(data.gains || []); when awaited by the upload, the
\* upload goes on to setLoading(false)
fetchGainsResponds ==
    /\ \E i \in DOMAIN analyzerRequests :
         /\ analyzerRequests[i].kind = "gains"
         /\ analyzerRequests' = RemoveAt(analyzerRequests, i)
         /\ \E listed \in GainsListed : gains' = listed
         /\ IF analyzerRequests[i].upload
            THEN analyzerLoading' = FALSE
            ELSE UNCHANGED analyzerLoading
    /\ UNCHANGED <<analysis, analyzerUpload, pageCalls>>
    /\ UNCHANGED <<debtPageVars, cibilVars, harnessVars, taxVars, simVars, cgVars, shellVars, now>>

\* fetchGains throws: inside the upload's try it is caught like an upload
\* error; at mount nothing catches it
fetchGainsFails ==
    /\ \E i \in DOMAIN analyzerRequests :
         /\ analyzerRequests[i].kind = "gains"
         /\ analyzerRequests' = RemoveAt(analyzerRequests, i)
         /\ IF analyzerRequests[i].upload
            THEN /\ analyzerUpload' = [analyzerUpload EXCEPT
                                         !.error = "Error uploading file. Try again."]
                 /\ analyzerLoading' = FALSE
            ELSE UNCHANGED <<analyzerUpload, analyzerLoading>>
    /\ UNCHANGED <<gains, analysis, pageCalls>>
    /\ UNCHANGED <<debtPageVars, cibilVars, harnessVars, taxVars, simVars, cgVars, shellVars, now>>

\* handleAnalyze up to its first await (the button is disabled while loading)
handleAnalyze ==
    /\ pageCalls < MaxPageCalls
    /\ ~analyzerLoading
    /\ analyzerLoading' = TRUE
    /\ analyzerRequests' = Append(analyzerRequests, [kind |-> "analyze"])
    /\ PageCalled
    /\ UNCHANGED <<gains, analysis, analyzerUpload>>
    /\ UNCHANGED <<debtPageVars, cibilVars, harnessVars, taxVars, simVars, cgVars, shellVars, now>>

\* const data = await res.json(); setAnalysis(data); setLoading(false);
analyzeResponds ==
    /\ \E i \in DOMAIN analyzerRequests :
         /\ analyzerRequests[i].kind = "analyze"
         /\ analyzerRequests' = RemoveAt(analyzerRequests, i)
    /\ analysis' = AnalysisData
    /\ analyzerLoading' = FALSE
    /\ UNCHANGED <<gains, analyzerUpload, pageCalls>>
    /\ UNCHANGED <<debtPageVars, cibilVars, harnessVars, taxVars, simVars, cgVars, shellVars, now>>

\* await fetch(...) rejects or await res.json() throws: handleAnalyze ends
\* there, no catch and no finally
analyzeFails ==
    /\ \E i \in DOMAIN analyzerRequests :
         /\ analyzerRequests[i].kind = "analyze"
         /\ analyzerRequests' = RemoveAt(analyzerRequests, i)
    /\ UNCHANGED <<gains, analysis, analyzerLoading, analyzerUpload, pageCalls>>
    /\ UNCHANGED <<debtPageVars, cibilVars, harnessVars, taxVars, simVars, cgVars, shellVars, now>>

AnalyzerSettles ==
    \/ analyzerIngestResponds
    \/ analyzerIngestFails
    \/ fetchGainsResponds
    \/ fetchGainsFails
    \/ analyzeResponds
    \/ analyzeFails

AnalyzerNext ==
    \/ analyzerFileUpload
    \/ handleAnalyze
    \/ AnalyzerSettles

\* SpecDebtPage: the DebtDashboard page mounted and used
DebtPageInit ==
    /\ CibilInit
    /\ ShellIdle
    /\ HarnessIdle
    /\ TaxIdle
    /\ SimIdle
    /\ GainsIdle
    /\ now = FirstNow
    /\ DebtPageMounted
    /\ AnalyzerIdle
    /\ pageCalls = 0

SpecDebtPage == DebtPageInit /\ [][DebtPageNext]_vars

\* SpecLoading: both pages mounted, the user clicking Simulate and Analyze
\* and uploading files, and every request settling sooner or later
LoadingInit ==
    /\ CibilInit
    /\ ShellIdle
    /\ HarnessIdle
    /\ TaxIdle
    /\ SimIdle
    /\ GainsIdle
    /\ now = FirstNow
    /\ DebtPageMounted
    /\ AnalyzerMounted
    /\ pageCalls = 0

LoadingNext ==
    \/ handleSimulate
    \/ handleFileUpload
    \/ DebtPageSettles
    \/ AnalyzerNext

SpecLoading ==
    /\ LoadingInit
    /\ [][LoadingNext]_vars
    /\ WF_vars(DebtPageSettles)
    /\ WF_vars(AnalyzerSettles)

(***************************************************************************)
(* Dashboard.jsx holds two definitions of the Dashboard component: one     *)
(* loads its data with fetchAllData (called the overview here), the other  *)
(* with fetchDashboardData.  Both start with loading = true and show the   *)
(* spinner while it is.                                                    *)
(***************************************************************************)
Users == { NoUser, [id |-> "user-1"] }

DemoData == [kind |-> "demo"]
DashboardResponse == [kind |-> "dashboard"]

\* useEffect(() => { fetchDashboardData(); }, []): setError("");
\* if (!user?.id) return; then the first await
fetchDashboardData ==
    /\ dashboardPhase = "mounted"
    /\ dashboardError' = ""
    /\ dashboardPhase' = IF user.id = "" THEN "done" ELSE "session"
    /\ UNCHANGED <<user, dashboardData, dashboardLoading>>
    /\ UNCHANGED <<overviewVars, chatVars, pageVars, cibilVars, harnessVars, taxVars,
                   simVars, cgVars, now>>

\* catch (err) { setError(...); setDashboardData(null); } finally { setLoading(false); }
DashboardCaught ==
    /\ dashboardError' = "Error fetching dashboard data."
    /\ dashboardData' = NoData
    /\ dashboardLoading' = FALSE
    /\ dashboardPhase' = "done"

\* await supabase.auth.getSession() resolves or throws
sessionSettles ==
    /\ dashboardPhase = "session"
    /\ \/ /\ dashboardPhase' = "fetch"
          /\ UNCHANGED <<dashboardData, dashboardLoading, dashboardError>>
       \/ DashboardCaught
    /\ UNCHANGED user
    /\ UNCHANGED <<overviewVars, chatVars, pageVars, cibilVars, harnessVars, taxVars,
                   simVars, cgVars, now>>

\* await fetch(...): if (!res.ok) { setError(errData.detail || "Failed..."); 
\* setDashboardData(null) } else setDashboardData(await res.json()); a
\* rejected fetch or a body that is not JSON lands in the catch
dashboardFetchSettles ==
    /\ dashboardPhase = "fetch"
    /\ \/ /\ dashboardData' = DashboardResponse
          /\ dashboardLoading' = FALSE
          /\ dashboardPhase' = "done"
          /\ UNCHANGED dashboardError
       \/ /\ \E detail \in {"", "Not authorized"} :
               dashboardError' = IF detail = "" THEN "Failed to fetch dashboard data."
                                                ELSE detail
          /\ dashboardData' = NoData
          /\ dashboardLoading' = FALSE
          /\ dashboardPhase' = "done"
       \/ DashboardCaught
    /\ UNCHANGED user
    /\ UNCHANGED <<overviewVars, chatVars, pageVars, cibilVars, harnessVars, taxVars,
                   simVars, cgVars, now>>

DashboardNext == fetchDashboardData \/ sessionSettles \/ dashboardFetchSettles

\* useEffect(() => { fetchAllData(); }, [user]): setLoading(true); setError("");
\* setDashboardData(getDemoData()); then await Promise.allSettled([...])
fetchAllData ==
    /\ overviewPhase = "mounted"
    /\ overviewLoading' = TRUE
    /\ overviewError' = ""
    /\ overviewData' = DemoData
    /\ overviewPhase' = "settling"
    /\ UNCHANGED overviewFetched
    /\ UNCHANGED <<dashboardVars, chatVars, pageVars, cibilVars, harnessVars, taxVars,
                   simVars, cgVars, now>>

\* Promise.allSettled never rejects: each of the four results is fulfilled
\* with usable data or not; finally { setLoading(false); }
allSettled ==
    /\ overviewPhase = "settling"
    /\ \E usable \in [{"taxData", "recommendations", "cibil", "cibilRecs"} -> BOOLEAN] :
         overviewFetched' = usable
    /\ overviewLoading' = FALSE
    /\ overviewPhase' = "done"
    /\ UNCHANGED <<overviewData, overviewError>>
    /\ UNCHANGED <<dashboardVars, chatVars, pageVars, cibilVars, harnessVars, taxVars,
                   simVars, cgVars, now>>

OverviewNext == fetchAllData \/ allSettled

(***************************************************************************)
(* Chatbot: sendMessage appends the question, posts it and appends the     *)
(* reply or an error notice when the request settles.  Nothing stops a     *)
(* second send while the first is in flight.                               *)
(***************************************************************************)
faqSuggestions == {"What factors affect my CIBIL score?"}

\* what the user types into the input box
TypedTexts == {"", "  ", "What is 80C?"}

\* text.trim()
Trim(text) == IF text = "  " THEN "" ELSE text

BotReply == "Here is what I found."
ErrorNotice == "Error contacting server"

\* onChange: setInput(e.target.value); if (showFaqs && value.trim()) setShowFaqs(false)
setInput ==
    /\ \E value \in TypedTexts :
         /\ value /= chatInput
         /\ chatInput' = value
         /\ showFaqs' = IF showFaqs /\ Trim(value) /= "" THEN FALSE ELSE showFaqs
    /\ UNCHANGED <<messages, chatLoading, chatRequests>>
    /\ UNCHANGED <<dashboardVars, overviewVars, pageVars, cibilVars, harnessVars,
                   taxVars, simVars, cgVars, now>>

\* sendMessage(questionText) up to its first await: question = questionText ||
\* input; if (!question.trim()) return; append the user message; hide the
\* suggestions; setLoading(true).  Asked with a suggestion (while they show)
\* or with nothing (Send, Enter).
sendMessage ==
    /\ Len(messages) + Len(chatRequests) < MaxMessages
    /\ \E questionText \in (IF showFaqs THEN faqSuggestions ELSE {}) \cup {""} :
         LET question == IF questionText /= "" THEN questionText ELSE chatInput
         IN IF Trim(question) = ""
            THEN UNCHANGED <<messages, showFaqs, chatLoading, chatRequests>>
            ELSE /\ messages' = Append(messages, [sender |-> "user", text |-> question])
                 /\ showFaqs' = FALSE
                 /\ chatLoading' = TRUE
                 /\ chatRequests' = Append(chatRequests, question)
    /\ UNCHANGED chatInput
    /\ UNCHANGED <<dashboardVars, overviewVars, pageVars, cibilVars, harnessVars,
                   taxVars, simVars, cgVars, now>>

\* const data = await res.json(); setMessages((prev) => [...prev, botMessage]);
\* finally { setLoading(false); } setInput("")
chatResponds ==
    /\ \E i \in DOMAIN chatRequests : chatRequests' = RemoveAt(chatRequests, i)
    /\ messages' = Append(messages, [sender |-> "bot", text |-> BotReply])
    /\ chatLoading' = FALSE
    /\ chatInput' = ""
    /\ UNCHANGED showFaqs
    /\ UNCHANGED <<dashboardVars, overviewVars, pageVars, cibilVars, harnessVars,
                   taxVars, simVars, cgVars, now>>

\* the catch left empty: a failed request shows nothing
chatFails_silent ==
    /\ \E i \in DOMAIN chatRequests : chatRequests' = RemoveAt(chatRequests, i)
    /\ chatLoading' = FALSE
    /\ chatInput' = ""
    /\ UNCHANGED <<messages, showFaqs>>
    /\ UNCHANGED <<dashboardVars, overviewVars, pageVars, cibilVars, harnessVars,
                   taxVars, simVars, cgVars, now>>

\* catch (error) { setMessages((prev) => [...prev, errorNotice]); }
\* finally { setLoading(false); } setInput("")
chatFails ==
    /\ \E i \in DOMAIN chatRequests : chatRequests' = RemoveAt(chatRequests, i)
    /\ messages' = Append(messages, [sender |-> "bot", text |-> ErrorNotice])
    /\ chatLoading' = FALSE
    /\ chatInput' = ""
    /\ UNCHANGED showFaqs
    /\ UNCHANGED <<dashboardVars, overviewVars, pageVars, cibilVars, harnessVars,
                   taxVars, simVars, cgVars, now>>

ChatSettles == chatResponds \/ chatFails

ChatNext == setInput \/ sendMessage \/ ChatSettles

\* SpecShell: the two Dashboard components and the Chatbot mounted, with or
\* without a user id; effects run and requests settle sooner or later
ShellInit ==
    /\ CibilInit
    /\ PagesIdle
    /\ HarnessIdle
    /\ TaxIdle
    /\ SimIdle
    /\ GainsIdle
    /\ now = FirstNow
    /\ user \in Users
    /\ dashboardData = NoData
    /\ dashboardLoading = TRUE
    /\ dashboardError = ""
    /\ dashboardPhase = "mounted"
    /\ overviewData = NoData
    /\ overviewLoading = TRUE
    /\ overviewError = ""
    /\ overviewFetched = NothingFetched
    /\ overviewPhase = "mounted"
    /\ ChatIdle

ShellNext == DashboardNext \/ OverviewNext \/ ChatNext

SpecShell ==
    /\ ShellInit
    /\ [][ShellNext]_vars
    /\ WF_vars(DashboardNext)
    /\ WF_vars(OverviewNext)
    /\ WF_vars(ChatSettles)

(***************************************************************************)
(* Vocabulary of the claims about the scoring functions.                   *)
(***************************************************************************)
FactorNames ==
    {"PaymentHistory", "CreditUtilization", "CreditAge", "AccountMix", "Inquiries"}

GoodStatus(f) ==
    CASE f = "PaymentHistory" -> "Good"
      [] f = "CreditUtilization" -> "Low"
      [] f = "CreditAge" -> "Healthy"
      [] f = "AccountMix" -> "Diverse"
      [] f = "Inquiries" -> "Low"

FactorTitle(f) ==
    CASE f = "PaymentHistory" -> "Improve Payment History"
      [] f = "CreditUtilization" -> "Reduce Credit Utilization"
      [] f = "CreditAge" -> "Increase Credit Age"
      [] f = "AccountMix" -> "Diversify Account Mix"
      [] f = "Inquiries" -> "Limit Credit Inquiries"

TitleCount(recs, title) == Cardinality({ i \in DOMAIN recs : recs[i].Title = title })

AllGood(factors) == \A f \in FactorNames : factors[f].Status = GoodStatus(f)

\* C1: for every list of accounts and of inquiries, the empty lists included,
\* the score calculateScore produces is an integer between 300 and 900.
C1_ScoreInRange == Scored => result.score \in 300..900

\* C1 witness: a scored input whose unclamped score lies below the floor.
C1_Witness ==
    /\ Scored
    /\ RawScore(argAccounts, argInquiries, now) < 300
    /\ result.score = 300

\* C2: getRecommendations emits exactly one recommendation for each of the five
\* factors whose status is below its good status, and none for a factor at its
\* good status.
C2_OneRecPerDeficientFactor ==
    Scored =>
        \A f \in FactorNames :
            TitleCount(result.recommendations, FactorTitle(f))
                = IF result.factors[f].Status /= GoodStatus(f) THEN 1 ELSE 0

\* C3: when all five factors are at their good status the recommendation list
\* is exactly the single entry 'Maintain Good Credit Habits' with gain 0.
C3_AllGoodMaintain ==
    (Scored /\ AllGood(result.factors)) =>
        result.recommendations =
            << [Title |-> "Maintain Good Credit Habits",
                ExpectedScoreImprovement |-> 0] >>

\* C3 witness: a scored input with all five factors good.
C3_Witness == Scored /\ AllGood(result.factors)

\* C4: with 3 late payments and 60% aggregate utilization the recommendations
\* hold both 'Reduce Credit Utilization' and 'Improve Payment History'; and the
\* recommendation list is never empty, whatever the input.
C4_ScenarioAndNeverEmpty ==
    Scored =>
        /\ Len(result.recommendations) > 0
        /\ ( ( /\ latePayments(argAccounts) = 3
               /\ limitSum(argAccounts) > 0
               /\ 5 * utilizationSum(argAccounts) = 3 * limitSum(argAccounts) )
             => /\ TitleCount(result.recommendations, "Reduce Credit Utilization") = 1
                /\ TitleCount(result.recommendations, "Improve Payment History") = 1 )

\* C4 witness: a scored input with 3 late payments and utilization 60/100.
C4_Witness ==
    /\ Scored
    /\ latePayments(argAccounts) = 3
    /\ utilizationSum(argAccounts) = 60
    /\ limitSum(argAccounts) = 100

\* C6 as stated: with no account and no inquiry the score is the baseline 750.
C6_EmptyIsBaseline ==
    (Scored /\ argAccounts = <<>> /\ argInquiries = <<>>) => result.score = 750

\* C6 as amended: with no account and no inquiry the score is the baseline less
\* the limited-mix penalty, 750 - 10 = 740; no other penalty is applied.
C6_EmptyIsBaselineLessMix ==
    (Scored /\ argAccounts = <<>> /\ argInquiries = <<>>) => result.score = 740

\* C6 witness: the empty input, scored.
C6_Witness == Scored /\ argAccounts = <<>> /\ argInquiries = <<>>

\* C7: compare recommends the regime with the lower tax_payable, so the
\* recommended regime's tax_payable never exceeds the other's, and it
\* recommends "new" when both are equal.
C7_RecommendsCheaperRegime ==
    Compared =>
        LET old == taxOutcome.old_regime.tax_payable
            new == taxOutcome.new_regime.tax_payable
        IN /\ (old < new) => taxOutcome.recommended_regime = "old"
           /\ (new < old) => taxOutcome.recommended_regime = "new"
           /\ (old = new) => taxOutcome.recommended_regime = "new"

\* C7 witness: a comparison in which both regimes owe the same positive tax.
C7_Witness ==
    /\ Compared
    /\ taxOutcome.old_regime.tax_payable = taxOutcome.new_regime.tax_payable
    /\ taxOutcome.new_regime.tax_payable > 0

RecommendedTax ==
    IF taxOutcome.recommended_regime = "old"
    THEN taxOutcome.old_regime.tax_payable
    ELSE taxOutcome.new_regime.tax_payable

SchedulePartialSum(q) ==
    SumSeq([i \in 1..q |-> taxOutcome.advance_tax_schedule[i]])

\* C8: the advance tax schedule holds four incremental amounts, not cumulative
\* figures: their running total after each quarter is 15%, 45%, 75% and 100% of
\* the annual tax_payable to within one rupee, and the four sum to the annual
\* tax_payable exactly, the last installment taking up the rounding.
C8_ScheduleIncrementsSumToTax ==
    Compared =>
        /\ Len(taxOutcome.advance_tax_schedule) = 4
        /\ \A q \in 1..4 :
              /\ taxOutcome.advance_tax_schedule[q] >= 0
              /\ Abs(100 * SchedulePartialSum(q) - CumulativePercent[q] * RecommendedTax)
                    <= 100
        /\ SchedulePartialSum(4) = RecommendedTax
        /\ taxOutcome.advance_tax_schedule[4]
              = RecommendedTax - SchedulePartialSum(3)

\* C8 witness: a comparison whose annual tax does not split into whole rupees
\* at 15%, so that an installment is rounded.
C8_Witness ==
    /\ Compared
    /\ RecommendedTax > 0
    /\ (RecommendedTax * 15) % 100 /= 0

ExpectedClamped ==
    Min(taxProfile.deduction_claims["80C"], 150000)
      + Min(taxProfile.deduction_claims["80D"], 100000)
      + Min(taxProfile.deduction_claims["24B"], 200000)

\* C9: a deduction claim above its ceiling is clamped, not rejected:
\* deductions_claimed of the old regime is the total of the clamped claims, and
\* the old regime's taxable income is the gross income less that total; an
\* income of 800,000 with 150,000 claimed under the 150,000-capped code gives
\* 650,000 under the old regime and 800,000 under the new one.
C9_ClaimsClampedToCeiling ==
    (taxOutcome /= NoOutcome /\ ValidProfile(taxProfile)) =>
        /\ taxOutcome.kind = "TaxComparison"
        /\ taxOutcome.old_regime.deductions_claimed = ExpectedClamped
        /\ taxOutcome.old_regime.taxable_income
              = taxProfile.gross_income - ExpectedClamped
        /\ ( ( /\ taxProfile.gross_income = 800000
               /\ taxProfile.deduction_claims["80C"] = 150000
               /\ taxProfile.deduction_claims["80D"] = 0
               /\ taxProfile.deduction_claims["24B"] = 0 )
             => /\ taxOutcome.old_regime.taxable_income = 650000
                /\ taxOutcome.new_regime.taxable_income = 800000 )

\* C9 witness: an accepted comparison of a profile with a claim above the ceiling.
C9_Witness ==
    /\ Compared
    /\ taxProfile.deduction_claims["80C"] > 150000
    /\ taxOutcome.old_regime.deductions_claimed < 
          taxProfile.deduction_claims["80C"] + taxProfile.deduction_claims["80D"]
            + taxProfile.deduction_claims["24B"]

(***************************************************************************)
(* Claims about the debt repayment simulator.                              *)
(***************************************************************************)
\* total_debt_remaining does not rise from a month of the timeline to the next
TimelineNonIncreasing ==
    \A m \in 1..(Len(simTimeline) - 1) :
        simTimeline[m + 1].total_debt_remaining
            <= simTimeline[m].total_debt_remaining

\* C10: for every input simulate accepts, total_debt_remaining never
\* increases from one month of the returned timeline to the next.
C10_TimelineNeverIncreases ==
    simPhase /= "idle" => TimelineNonIncreasing

\* C10 (amended): total_debt_remaining never increases from one month of the
\* timeline to the next whenever no debt of the input is flagged as a
\* negative-amortization debt.
C10_NonIncreasingUnlessNegativeAmortization ==
    (simPhase /= "idle" /\ "negative_amortization" \notin simWarnings)
        => TimelineNonIncreasing

\* a finished simulation of two unflagged debts with a surplus, whose total
\* went down over several months
C10_Witness ==
    /\ Simulated
    /\ simWarnings = {}
    /\ Len(simInput.debts) = 2
    /\ Surplus(simInput) > 0
    /\ Len(simTimeline) >= 3
    /\ simTimeline[Len(simTimeline)].total_debt_remaining = 0
    /\ simTimeline[2].total_debt_remaining < simTimeline[1].total_debt_remaining

EndsAtFirstZeroMonth ==
    /\ AllPaid(simBalances)
    /\ "non_convergent" \notin simWarnings
    /\ \A m \in 1..(Len(simTimeline) - 1) :
           simTimeline[m].total_debt_remaining > 0
    /\ Len(simTimeline) > 0 =>
           simTimeline[Len(simTimeline)].total_debt_remaining = 0

\* the timeline was cut at the cap and the result says so
CappedAndFlagged ==
    /\ ~AllPaid(simBalances)
    /\ Len(simTimeline) = HorizonCap
    /\ "non_convergent" \in simWarnings

\* C12: simulate always terminates: the timeline ends at the first month in
\* which every debt's balance has reached zero, or after the hard cap of 600
\* months, and in the capped case the result is flagged as non-convergent.
C12_TerminatesAtZeroOrFlaggedCap ==
    <>(/\ Simulated
       /\ Len(simTimeline) <= HorizonCap
       /\ EndsAtFirstZeroMonth \/ CappedAndFlagged)

\* a simulation that ran into the cap and returned
C12_Witness ==
    /\ Simulated
    /\ Len(simTimeline) = HorizonCap
    /\ ~AllPaid(simBalances)
    /\ "non_convergent" \in simWarnings

(***************************************************************************)
(* Claims about the capital gains analyzer.                                *)
(***************************************************************************)
BuyIndexes == { k \in 1..Len(cgTrades) : cgTrades[k].type = "buy" }
SellIndexes == { k \in 1..Len(cgTrades) : cgTrades[k].type = "sell" }

\* the quantity the gain records take from the lot opened by the k-th trade
ConsumedFromLot(k) ==
    SumSeq([i \in 1..Len(cgResult.records) |->
        IF /\ cgResult.records[i].instrument = cgTrades[k].instrument
           /\ cgResult.records[i].trade_date
                 - cgResult.records[i].holding_period_days = cgTrades[k].trade_date
        THEN cgResult.records[i].quantity ELSE 0])

\* the quantity of the k-th trade, a sell, that the gain records cover
MatchedOfSell(k) ==
    SumSeq([i \in 1..Len(cgResult.records) |->
        IF cgResult.records[i].trade_date = cgTrades[k].trade_date
        THEN cgResult.records[i].quantity ELSE 0])

\* a batch of one buy lot followed by two partial sells of the whole lot
OneLotTwoPartialSells ==
    /\ Len(cgTrades) = 3
    /\ cgTrades[1].type = "buy"
    /\ cgTrades[2].type = "sell" /\ cgTrades[3].type = "sell"
    /\ cgTrades[2].instrument = cgTrades[1].instrument
    /\ cgTrades[3].instrument = cgTrades[1].instrument
    /\ cgTrades[2].quantity + cgTrades[3].quantity = cgTrades[1].quantity

\* C13: classify matches every sell against the earliest unconsumed buy lot
\* of the same instrument and never consumes more than a lot's remaining
\* quantity; for one buy lot followed by two partial sells that together
\* sell the whole lot, the two gain records' quantities sum to the buy
\* quantity.
C13_FifoWithinLotQuantities ==
    Classified =>
        /\ \A k \in BuyIndexes : ConsumedFromLot(k) <= cgTrades[k].quantity
        /\ \A k1 \in BuyIndexes : \A k2 \in BuyIndexes :
              (/\ k1 < k2
               /\ cgTrades[k1].instrument = cgTrades[k2].instrument
               /\ ConsumedFromLot(k2) > 0)
                  => ConsumedFromLot(k1) = cgTrades[k1].quantity
        /\ \A i \in 1..Len(cgResult.records) :
              \E k \in BuyIndexes :
                  /\ cgTrades[k].instrument = cgResult.records[i].instrument
                  /\ cgTrades[k].price = cgResult.records[i].buy_price
                  /\ cgTrades[k].trade_date < cgResult.records[i].trade_date
                  /\ cgTrades[k].trade_date = cgResult.records[i].trade_date
                        - cgResult.records[i].holding_period_days
        /\ OneLotTwoPartialSells =>
              /\ Len(cgResult.records) = 2
              /\ cgResult.records[1].quantity = cgTrades[2].quantity
              /\ cgResult.records[2].quantity = cgTrades[3].quantity
              /\ cgResult.records[1].quantity + cgResult.records[2].quantity
                    = cgTrades[1].quantity

\* the batch of the scenario has been classified: a lot of 10, sold as 4 and 6
C13_Witness ==
    /\ Classified
    /\ OneLotTwoPartialSells
    /\ cgTrades[1].quantity = 10
    /\ Len(cgResult.records) = 2
    /\ cgResult.errors = <<>>

\* the batch without its k-th trade
WithoutTrade(k) ==
    [i \in 1..(Len(cgTrades) - 1) |->
        IF i < k THEN cgTrades[i] ELSE cgTrades[i + 1]]

\* C14: a sell with no available matching buy lot produces an
\* UnmatchedSellError attached to that record and returned in the error
\* list; the other trades of the batch are still classified and their gain
\* records returned.
C14_UnmatchedSellReportedOthersClassified ==
    Classified =>
        /\ \A k \in SellIndexes :
              MatchedOfSell(k) = 0 =>
                  /\ \E e \in 1..Len(cgResult.errors) :
                        /\ cgResult.errors[e].kind = "UnmatchedSellError"
                        /\ cgResult.errors[e].record = cgTrades[k]
                  /\ cgResult.records = classify(WithoutTrade(k)).records
        /\ \A e \in 1..Len(cgResult.errors) :
              \E k \in SellIndexes :
                  /\ cgResult.errors[e].record = cgTrades[k]
                  /\ MatchedOfSell(k) < cgTrades[k].quantity

\* a batch whose first trade is a sell with no lot to match, followed by a
\* buy and a sell that were classified all the same
C14_Witness ==
    /\ Classified
    /\ Len(cgTrades) >= 3
    /\ cgTrades[1].type = "sell"
    /\ Len(cgResult.errors) = 1
    /\ cgResult.errors[1].record = cgTrades[1]
    /\ Len(cgResult.records) >= 1

(***************************************************************************)
(* Claims about the single deductions of calculateScore.  Each states the  *)
(* deduction it is about in its own terms and reads the others off the     *)
(* score logic.                                                            *)
(***************************************************************************)
\* the score shown for the given five deductions
ScoreAfter(payment, utilization, age, mixd, inquiry) ==
    ClampScore(BaseScore - payment - utilization - age - mixd - inquiry)

\* the tier penalties added up over the breached tiers
AdditiveTierPenalty(accs) ==
    LET u == utilizationSum(accs)
        l == limitSum(accs)
    IN IF l > 0
       THEN (IF 10 * u > 3 * l THEN 20 ELSE 0) + (IF 2 * u > l THEN 40 ELSE 0)
       ELSE 0

\* C15: the utilization penalty is additive across breached tiers: above 50%
\* the score is reduced by 20 plus 40, above 30% but not above 50% by 20, at
\* 30% or below by nothing.
C15_UtilizationTiersAdditive ==
    Scored =>
        result.score =
            ScoreAfter(PaymentDeduction(argAccounts),
                       AdditiveTierPenalty(argAccounts),
                       AgeDeduction(argAccounts, now),
                       MixDeduction(argAccounts),
                       InquiryDeduction(argInquiries, now))

\* the accounts with a non-zero limit
NonZeroLimitAccounts(accs) == { i \in DOMAIN accs : Number(accs[i].limit) /= 0 }

RECURSIVE SumOfField(_, _, _)
SumOfField(accs, S, field) ==
    IF S = {} THEN 0
    ELSE LET i == CHOOSE j \in S : TRUE
         IN Number(accs[i][field]) + SumOfField(accs, S \ {i}, field)

\* the status of a utilization of balances / limits
StatusOfUtilization(balances, limits) ==
    IF limits > 0
    THEN IF 10 * balances < 3 * limits THEN "Low"
         ELSE IF 2 * balances < limits THEN "Moderate" ELSE "High"
    ELSE "Low"

\* C16: aggregate utilization is the sum of balances divided by the sum of
\* limits over all accounts with a non-zero limit: only accounts with a zero
\* limit are left out, and an account with a positive limit and a zero
\* balance still contributes its limit.
C16_UtilizationOverNonZeroLimits ==
    Scored =>
        result.factors.CreditUtilization.Status =
            StatusOfUtilization(
                SumOfField(argAccounts, NonZeroLimitAccounts(argAccounts), "balance"),
                SumOfField(argAccounts, NonZeroLimitAccounts(argAccounts), "limit"))

\* the payment rows marked late, dated or not
RowsMarkedLate(accs) ==
    SumSeq([i \in DOMAIN accs |->
        Cardinality({ r \in DOMAIN accs[i].paymentHistory :
                        ~accs[i].paymentHistory[r].onTime })])

\* the payment rows that have a date and are marked late
DatedRowsMarkedLate(accs) ==
    SumSeq([i \in DOMAIN accs |->
        Cardinality({ r \in DOMAIN accs[i].paymentHistory :
                        /\ accs[i].paymentHistory[r].date /= ""
                        /\ ~accs[i].paymentHistory[r].onTime })])

\* C17: every payment event marked late on any account lowers the pre-clamp
\* score by 25 points, n late events by 25 * n; on-time events leave it
\* unchanged.
C17_EveryLateRowCosts25 ==
    Scored =>
        result.score =
            ScoreAfter(25 * RowsMarkedLate(argAccounts),
                       UtilizationDeduction(argAccounts),
                       AgeDeduction(argAccounts, now),
                       MixDeduction(argAccounts),
                       InquiryDeduction(argInquiries, now))

\* C17 (amended): every payment event that has a date and is marked late
\* lowers the pre-clamp score by 25 points, n such events by 25 * n; on-time
\* events and rows without a date leave it unchanged.
C17_EveryDatedLateRowCosts25 ==
    Scored =>
        result.score =
            ScoreAfter(25 * DatedRowsMarkedLate(argAccounts),
                       UtilizationDeduction(argAccounts),
                       AgeDeduction(argAccounts, now),
                       MixDeduction(argAccounts),
                       InquiryDeduction(argInquiries, now))

\* three dated late rows and an undated one: 75 points off, not clamped
C17_Witness ==
    /\ Scored
    /\ DatedRowsMarkedLate(argAccounts) = 3
    /\ RowsMarkedLate(argAccounts) = 4
    /\ result.score = RawScore(argAccounts, argInquiries, now)
    /\ result.score > ScoreFloor

\* the accounts whose opened date is a date
ValidlyDated(accs) ==
    { i \in DOMAIN accs : accs[i].opened /= "" /\ DateParse(accs[i].opened).valid }

RECURSIVE QuarterDaysSince(_, _, _)
QuarterDaysSince(accs, S, t) ==
    IF S = {} THEN 0
    ELSE LET i == CHOOSE j \in S : TRUE
         IN 4 * (t - DateParse(accs[i].opened).t) + QuarterDaysSince(accs, S \ {i}, t)

\* the age tier of the average age of the accounts S: 15 below two years,
\* 5 from two to below four years, nothing from four years on
AgeTierPenalty(accs, S, t) ==
    IF S = {} THEN 0
    ELSE IF QuarterDaysSince(accs, S, t) < 2 * YearQuarterDays * Cardinality(S) THEN 15
    ELSE IF QuarterDaysSince(accs, S, t) < 4 * YearQuarterDays * Cardinality(S) THEN 5
    ELSE 0

\* the inquiries with a well-formed date inside the last 365 days
WellFormedRecent(inqs, t) ==
    { i \in DOMAIN inqs :
        /\ inqs[i].date /= ""
        /\ DateParse(inqs[i].date).valid
        /\ DateParse(inqs[i].date).t > t - InquiryWindowDays }

\* C18: an account whose opened date is malformed is left out of the
\* average age, which is taken over the accounts with valid dates and still
\* decides the age tier; an inquiry whose date is malformed is not counted as
\* recent; and the calculation returns a score all the same.
C18_MalformedDatesLeftOut ==
    Scored =>
        result.score =
            ScoreAfter(PaymentDeduction(argAccounts),
                       UtilizationDeduction(argAccounts),
                       AgeTierPenalty(argAccounts, ValidlyDated(argAccounts), now),
                       MixDeduction(argAccounts),
                       IF Cardinality(WellFormedRecent(argInquiries, now)) > 2
                       THEN InquiryPenalty ELSE 0)

\* every opened date that is filled in is a date, and there is one
AverageAgeDefined ==
    /\ ValidlyDated(argAccounts) /= {}
    /\ ValidlyDated(argAccounts) = { i \in DOMAIN argAccounts : argAccounts[i].opened /= "" }

\* C19: calculateScore deducts 15 when the average account age is below 2
\* years, 5 when it is at least 2 and below 4 years, and nothing when it is
\* 4 years or more.
C19_AgeTiers ==
    (Scored /\ AverageAgeDefined) =>
        result.score =
            ScoreAfter(PaymentDeduction(argAccounts),
                       UtilizationDeduction(argAccounts),
                       AgeTierPenalty(argAccounts, ValidlyDated(argAccounts), now),
                       MixDeduction(argAccounts),
                       InquiryDeduction(argInquiries, now))

\* two accounts, one young and one old, whose average falls in the middle
\* tier: 5 points off a score that is not clamped
C19_Witness ==
    /\ Scored
    /\ AverageAgeDefined
    /\ Cardinality(ValidlyDated(argAccounts)) = 2
    /\ AgeTierPenalty(argAccounts, {1}, now) /= AgeTierPenalty(argAccounts, {2}, now)
    /\ AgeTierPenalty(argAccounts, ValidlyDated(argAccounts), now) = 5
    /\ result.score > ScoreFloor

\* the account types that occur: values of the enum, not the blank choice
TypesSelected(accs) == { accs[i].type : i \in DOMAIN accs } \ {""}

\* C20: the limited-mix penalty is applied exactly when fewer than 2
\* distinct account types occur among the accounts, an account with no type
\* selected adding no type.
C20_MixPenaltyBelowTwoTypes ==
    Scored =>
        result.score =
            ScoreAfter(PaymentDeduction(argAccounts),
                       UtilizationDeduction(argAccounts),
                       AgeDeduction(argAccounts, now),
                       IF Cardinality(TypesSelected(argAccounts)) < 2 THEN MixPenalty ELSE 0,
                       InquiryDeduction(argInquiries, now))

\* the inquiries dated within the 365 days up to now
WithinLastYear(inqs, t) ==
    { i \in DOMAIN inqs :
        /\ DateParse(inqs[i].date).valid
        /\ DateParse(inqs[i].date).t > t - 365
        /\ DateParse(inqs[i].date).t <= t }

\* C21: calculateScore counts exactly the inquiries whose date lies within
\* the 365 days up to now, and deducts the inquiry penalty exactly when that
\* count exceeds 2.
C21_InquiriesOfLastYear ==
    Scored =>
        result.score =
            ScoreAfter(PaymentDeduction(argAccounts),
                       UtilizationDeduction(argAccounts),
                       AgeDeduction(argAccounts, now),
                       MixDeduction(argAccounts),
                       IF Cardinality(WithinLastYear(argInquiries, now)) > 2
                       THEN 10 ELSE 0)

(***************************************************************************)
(* Claims about the form handlers of the CIBILAdvisor component.           *)
(***************************************************************************)
\* the positions of a list of references whose record differs after the step
ChangedPositions(refs) == { i \in DOMAIN refs : heap'[refs[i]] /= heap[refs[i]] }

\* C22: updateAccount(idx, field, value) changes only the account at idx,
\* every other account of the list keeping all of its field values; likewise
\* updateInquiry changes only the inquiry at idx, and updatePaymentHistory and
\* addPaymentHistory only the payment history of the addressed account.
C22_OnlyTheAddressedRecordChanges ==
    [][ (accounts' = accounts /\ inquiries' = inquiries) =>
            /\ Cardinality(ChangedPositions(accounts)) <= 1
            /\ Cardinality(ChangedPositions(inquiries)) <= 1 ]_vars

\* C23: the templates initialAccount and initialInquiry are never modified
\* by a form operation, so an added account starts blank whatever was edited
\* before.
C23_TemplatesNeverModified ==
    /\ heap[AccountRef] = initialAccount
    /\ heap[InquiryRef] = initialInquiry

\* the titles of the recommendations shown
TitlesShown == { result.recommendations[i].Title : i \in DOMAIN result.recommendations }

\* C24: score and recommendations never disagree about which factors are
\* deficient: a factor's recommendation is emitted only if calculateScore
\* deducted points for that same factor.
C24_RecommendedOnlyIfDeducted ==
    Scored =>
        /\ "Reduce Credit Utilization" \in TitlesShown
              => UtilizationDeduction(argAccounts) > 0
        /\ "Increase Credit Age" \in TitlesShown
              => AgeDeduction(argAccounts, now) > 0
        /\ "Diversify Account Mix" \in TitlesShown
              => MixDeduction(argAccounts) > 0
        /\ "Improve Payment History" \in TitlesShown
              => PaymentDeduction(argAccounts) > 0
        /\ "Limit Credit Inquiries" \in TitlesShown
              => InquiryDeduction(argInquiries, now) > 0

\* C26: whenever the score details panel is visible, the displayed score is
\* not null and equals the score calculateScore yields for the accounts and
\* inquiries held in the form state (at the clock reading of the calculation,
\* which is not after now): the form cannot be edited while the panel shows.
C26_PanelShowsScoreOfCurrentForm ==
    showDetails =>
        /\ score /= NoScore
        /\ \E t \in NowSet :
              /\ t <= now
              /\ score = ScoreOf(Deref(accounts), Deref(inquiries), t)

\* the panel open on a form of two accounts that was edited before scoring
C26_Witness ==
    /\ showDetails
    /\ Len(accounts) = 2
    /\ heap[AccountRef] /= initialAccount
    /\ score = ScoreOf(Deref(accounts), Deref(inquiries), now)
    /\ score < BaseScore - MixPenalty

\* C27: for every input the score is at most the baseline 750: every factor
\* can only lower the score, so no input produces a score in 751..900.
C27_ScoreAtMostBaseline ==
    Scored => result.score <= 750

\* two accounts of different types that draw no penalty at all: exactly 750
C27_Witness ==
    /\ Scored
    /\ Len(argAccounts) = 2
    /\ result.score = 750

(***************************************************************************)
(* Claims about the DebtDashboard and CapitalGainsAnalyzer pages.          *)
(***************************************************************************)
\* C25: every debt shown in the DebtDashboard list, the debts added through
\* the Add Debt form included, is part of the debt set that the next
\* handleSimulate request asks the simulator to run on.
C25_ListedDebtsAreSimulated ==
    [][ (~loading /\ loading') => Range(listedDebts) \subseteq Range(storedDebts') ]_vars

\* C28: whenever a simulate request or an analyze request settles, with a
\* response or with an error, the loading flag eventually returns to false,
\* so the action can be triggered again.
C28_LoadingReturnsToFalse ==
    /\ loading ~> ~loading
    /\ analyzerLoading ~> ~analyzerLoading

(***************************************************************************)
(* Claims about the Dashboard components and the Chatbot.                  *)
(***************************************************************************)
\* C29: after the Dashboard mounts, its loading flag eventually becomes
\* false, whether or not a user id is available and whether or not the
\* dashboard request succeeds.
C29_DashboardStopsLoading ==
    /\ <>(~dashboardLoading)
    /\ <>(~overviewLoading)

UserMessages == { i \in DOMAIN messages : messages[i].sender = "user" }
BotAnswers == { i \in DOMAIN messages : i > 1 /\ messages[i].sender = "bot" }

\* every question shown is non-blank and has its one answer or is in flight
OneAnswerPerQuestion ==
    /\ messages[1] = WelcomeMessage
    /\ \A i \in UserMessages : Trim(messages[i].text) /= ""
    /\ Cardinality(UserMessages) = Cardinality(BotAnswers) + Len(chatRequests)

\* a step appends at most one message and leaves the earlier ones as they are
MessagesOnlyAppended ==
    /\ Len(messages') \in {Len(messages), Len(messages) + 1}
    /\ SubSeq(messages', 1, Len(messages)) = messages
    /\ Len(chatRequests') > Len(chatRequests)
          => /\ Len(messages') = Len(messages) + 1
             /\ messages'[Len(messages')].sender = "user"
    /\ Len(chatRequests') < Len(chatRequests)
          => /\ Len(messages') = Len(messages) + 1
             /\ messages'[Len(messages')].sender = "bot"
    /\ Len(chatRequests') = Len(chatRequests) => messages' = messages

\* C30: in sendMessage a blank or whitespace-only question appends nothing;
\* every non-blank question appends exactly one user message and, once its
\* request settles, exactly one bot message (the reply or an error notice);
\* existing messages are never removed or changed, also when several sends
\* are in flight at the same time.
C30_OneUserAndOneBotMessagePerQuestion ==
    /\ []OneAnswerPerQuestion
    /\ [][MessagesOnlyAppended]_vars

\* two questions sent before either was answered, one answered with a reply
\* and one with the error notice
C30_Witness ==
    /\ Len(messages) = 5
    /\ chatRequests = <<>>
    /\ messages[2].sender = "user"
    /\ messages[3].sender = "user"
    /\ { messages[4].text, messages[5].text } = { BotReply, ErrorNotice }

====
